---- MODULE Spec2Model ----
(***************************************************************************)
(* The Insight Proxy Handler of api/generate-insight.js (server-held       *)
(* secret): origin policy, preflight, access tokens, request validation,   *)
(* the fixed-window rate limiter and the upstream caller.                  *)
(*                                                                         *)
(* A JavaScript string is a sequence of atoms; an atom stands for a fixed  *)
(* run of characters that contains no comma and, unless it is " ", no      *)
(* white space.  A value that may be undefined is None or Some(v).         *)
(***************************************************************************)
EXTENDS Integers, Sequences, FiniteSets, TLC

None == <<>>
Some(v) == <<v>>

Range(f) == {f[i] : i \in DOMAIN f}

(* ------------------------------ strings ------------------------------ *)

LowerAtom(a) ==
  CASE a = "Production" -> "production"
    [] a = "PRODUCTION" -> "production"
    [] a = "Bearer" -> "bearer"
    [] a = "BEARER" -> "bearer"
    [] a = "A" -> "a"
    [] OTHER -> a

toLowerCase(s) == [i \in 1..Len(s) |-> LowerAtom(s[i])]

RECURSIVE trimStart(_)
trimStart(s) == IF s # <<>> /\ Head(s) = " " THEN trimStart(Tail(s)) ELSE s

RECURSIVE trimEnd(_)
trimEnd(s) ==
  IF s # <<>> /\ s[Len(s)] = " " THEN trimEnd(SubSeq(s, 1, Len(s) - 1)) ELSE s

trim(s) == trimEnd(trimStart(s))

RECURSIVE split(_)
split(s) ==
  IF \A i \in 1..Len(s) : s[i] # ","
  THEN <<s>>
  ELSE LET i == CHOOSE k \in 1..Len(s) :
                  s[k] = "," /\ \A j \in 1..(k - 1) : s[j] # ","
       IN <<SubSeq(s, 1, i - 1)>> \o split(SubSeq(s, i + 1, Len(s)))

startsWith(s, p) == Len(s) >= Len(p) /\ SubSeq(s, 1, Len(p)) = p

endsWith(s, p) == Len(s) >= Len(p) /\ SubSeq(s, Len(s) - Len(p) + 1, Len(s)) = p

includes(s, a) == \E i \in 1..Len(s) : s[i] = a

(* new URL(origin).hostname: None when the constructor throws.  A URL is a *)
(* scheme atom followed by host atoms and an optional port atom; the host  *)
(* is lower-cased and the port is not part of the hostname.                *)
IsPortAtom(a) == a = ":8080"

urlHostname(origin) ==
  IF /\ Len(origin) >= 2
     /\ origin[1] \in {"https://", "http://"}
     /\ ~IsPortAtom(origin[2])
     /\ (\A i \in 2..Len(origin) : origin[i] \notin {" ", ",", "*"})
     /\ (\A j \in 2..(Len(origin) - 1) : ~IsPortAtom(origin[j]))
  THEN LET hi == IF IsPortAtom(origin[Len(origin)]) THEN Len(origin) - 1
                 ELSE Len(origin)
       IN Some(toLowerCase(SubSeq(origin, 2, hi)))
  ELSE None

(* --------------------------- environment ----------------------------- *)

normalizeEnvironmentValue(v) == IF v # None THEN toLowerCase(trim(v[1])) ELSE <<>>

(* A mode that is production when either variable says so. *)
isProductionEnvironment_Either(e) ==
  LET ve == normalizeEnvironmentValue(e.VERCEL_ENV)
      ne == normalizeEnvironmentValue(e.NODE_ENV)
  IN ve = <<"production">> \/ ne = <<"production">>

isProductionEnvironment(e) ==
  LET ve == normalizeEnvironmentValue(e.VERCEL_ENV)
      ne == normalizeEnvironmentValue(e.NODE_ENV)
  IN IF ve # <<>> THEN ve = <<"production">>
     ELSE IF ne # <<>> THEN ne = <<"production">>
     ELSE FALSE

(* The permissive fallback in every mode. *)
parseAllowedOrigins_Permissive(e) ==
  IF e.ALLOWED_ORIGINS # None /\ trim(e.ALLOWED_ORIGINS[1]) # <<>>
  THEN {trim(x) : x \in Range(split(e.ALLOWED_ORIGINS[1]))} \ {<<>>}
  ELSE {<<"*">>}

parseAllowedOrigins(e) ==
  IF e.ALLOWED_ORIGINS # None /\ trim(e.ALLOWED_ORIGINS[1]) # <<>>
  THEN {trim(x) : x \in Range(split(e.ALLOWED_ORIGINS[1]))} \ {<<>>}
  ELSE IF ~isProductionEnvironment(e) THEN {<<"*">>}
  ELSE {}

(* --------------------------- origin policy --------------------------- *)

(* A suffix match without the dot boundary. *)
isWildcardMatch_NoBoundary(origin, pattern) ==
  IF ~startsWith(pattern, <<"*", ".">>) THEN FALSE
  ELSE LET h == urlHostname(origin)
           suffix == SubSeq(pattern, 3, Len(pattern))
       IN IF h = None THEN FALSE
          ELSE h[1] = suffix \/ endsWith(h[1], suffix)

isWildcardMatch(origin, pattern) ==
  IF ~startsWith(pattern, <<"*", ".">>) THEN FALSE
  ELSE LET h == urlHostname(origin)
           suffix == SubSeq(pattern, 3, Len(pattern))
       IN IF h = None THEN FALSE
          ELSE h[1] = suffix \/ endsWith(h[1], <<".">> \o suffix)

(* An allow-list that also applies to requests without an Origin. *)
isOriginAllowed_NoSameOrigin(origin, allowed) ==
  IF <<"*">> \in allowed THEN TRUE
  ELSE IF origin \in allowed THEN TRUE
  ELSE \E entry \in allowed :
         startsWith(entry, <<"*", ".">>) /\ isWildcardMatch(origin, entry)

isOriginAllowed(origin, allowed) ==
  IF origin = <<>> THEN TRUE
  ELSE IF <<"*">> \in allowed THEN TRUE
  ELSE IF origin \in allowed THEN TRUE
  ELSE \E entry \in allowed :
         startsWith(entry, <<"*", ".">>) /\ isWildcardMatch(origin, entry)

(* An echo that knows no '*' entry. *)
getCorsOriginToEcho_NoStar(origin, allowed) ==
  IF origin = <<>> THEN None
  ELSE IF origin \in allowed THEN Some(origin)
  ELSE IF \E entry \in allowed :
            startsWith(entry, <<"*", ".">>) /\ isWildcardMatch(origin, entry)
       THEN Some(origin)
  ELSE None

getCorsOriginToEcho(origin, allowed) ==
  IF origin = <<>> THEN None
  ELSE IF <<"*">> \in allowed THEN Some(<<"*">>)
  ELSE IF origin \in allowed THEN Some(origin)
  ELSE IF \E entry \in allowed :
            startsWith(entry, <<"*", ".">>) /\ isWildcardMatch(origin, entry)
       THEN Some(origin)
  ELSE None

(* ---------------------------- credentials ---------------------------- *)

(* raw.match(/^Bearer\s+(.+)$/i), then m[1].trim() *)
getAccessTokenFromHeader(req) ==
  IF req.authorization = None THEN None
  ELSE LET raw == req.authorization[1]
       IN IF Len(raw) >= 3 /\ LowerAtom(raw[1]) = "bearer" /\ raw[2] = " "
          THEN Some(trim(SubSeq(raw, 3, Len(raw))))
          ELSE None

parseAccessTokens(e) ==
  IF e.GENERATE_INSIGHT_ACCESS_TOKENS = None
     \/ e.GENERATE_INSIGHT_ACCESS_TOKENS = Some(<<>>)
  THEN {}
  ELSE {trim(x) : x \in Range(split(e.GENERATE_INSIGHT_ACCESS_TOKENS[1]))} \ {<<>>}

(* SHA-256 as a collision-free map from a token to one digest atom. *)
RECURSIVE concatAtoms(_)
concatAtoms(s) == IF s = <<>> THEN "" ELSE Head(s) \o concatAtoms(Tail(s))

hashToken(t) == "sha256(" \o concatAtoms(t) \o ")"

(* A key that prefers the forwarded address to the token. *)
getClientKey_AddressFirst(req, hashedToken) ==
  IF req.xff # None /\ trim(req.xff[1]) # <<>>
  THEN trim(split(req.xff[1])[1])
  ELSE IF hashedToken # None THEN <<"token:", hashedToken[1]>>
  ELSE IF req.remoteAddress # None /\ req.remoteAddress[1] # <<>>
       THEN req.remoteAddress[1]
  ELSE <<"unknown">>

getClientKey(req, hashedToken) ==
  IF hashedToken # None THEN <<"token:", hashedToken[1]>>
  ELSE IF req.xff # None /\ trim(req.xff[1]) # <<>>
       THEN trim(split(req.xff[1])[1])
  ELSE IF req.remoteAddress # None /\ req.remoteAddress[1] # <<>>
       THEN req.remoteAddress[1]
  ELSE <<"unknown">>

(* --------------------------- configuration --------------------------- *)

MAX_PROMPT_LENGTH == 4000
DEFAULT_REQUEST_TIMEOUT_MS == 15000
DEFAULT_MAX_RETRIES == 1

defaultRateLimitConfig == [maxRequests |-> 5, windowMs |-> 60000]
defaultRequestConfig ==
  [timeoutMs |-> DEFAULT_REQUEST_TIMEOUT_MS, maxRetries |-> DEFAULT_MAX_RETRIES]

AtomNumber ==
  ("0" :> 0) @@ ("1" :> 1) @@ ("2" :> 2) @@ ("3" :> 3) @@ ("7" :> 7)
  @@ ("-1" :> -1) @@ ("1000" :> 1000) @@ ("1500" :> 1500) @@ ("60000" :> 60000)
  @@ ("2000000000" :> 2000000000)

(* Number(v): white space is trimmed, the empty string is 0, anything that *)
(* is not a numeral is NaN (finite = FALSE).                               *)
Number(s) ==
  LET t == trim(s)
  IN IF t = <<>> THEN [finite |-> TRUE, v |-> 0]
     ELSE IF Len(t) = 1 /\ t[1] \in DOMAIN AtomNumber
          THEN [finite |-> TRUE, v |-> AtomNumber[t[1]]]
     ELSE [finite |-> FALSE, v |-> 0]

NumberOr(v, dflt) == IF v = None THEN [finite |-> TRUE, v |-> dflt] ELSE Number(v[1])

Min(a, b) == IF a <= b THEN a ELSE b
Max(a, b) == IF a >= b THEN a ELSE b
Ceil(a, b) == -((-a) \div b)

getRateLimitConfig(e) ==
  LET n == NumberOr(e.GENERATE_INSIGHT_MAX_REQUESTS, defaultRateLimitConfig.maxRequests)
      w == NumberOr(e.GENERATE_INSIGHT_WINDOW_MS, defaultRateLimitConfig.windowMs)
  IN [maxRequests |-> IF n.finite THEN n.v ELSE defaultRateLimitConfig.maxRequests,
      windowMs |-> IF w.finite /\ w.v > 0 THEN w.v ELSE defaultRateLimitConfig.windowMs]

(* A configuration whose retries have no cap. *)
getRequestConfig_NoCap(e) ==
  LET t == NumberOr(e.GENERATE_INSIGHT_TIMEOUT_MS, defaultRequestConfig.timeoutMs)
      r == NumberOr(e.GENERATE_INSIGHT_MAX_RETRIES, defaultRequestConfig.maxRetries)
  IN [timeoutMs |-> IF t.finite /\ t.v > 0 THEN t.v ELSE defaultRequestConfig.timeoutMs,
      maxRetries |-> IF r.finite /\ r.v >= 0 THEN r.v
                     ELSE defaultRequestConfig.maxRetries]

getRequestConfig(e) ==
  LET t == NumberOr(e.GENERATE_INSIGHT_TIMEOUT_MS, defaultRequestConfig.timeoutMs)
      r == NumberOr(e.GENERATE_INSIGHT_MAX_RETRIES, defaultRequestConfig.maxRetries)
  IN [timeoutMs |-> IF t.finite /\ t.v > 0 THEN t.v ELSE defaultRequestConfig.timeoutMs,
      maxRetries |-> IF r.finite /\ r.v >= 0 THEN Min(r.v, 3)
                     ELSE defaultRequestConfig.maxRetries]

(* ---------------------------- rate limiter --------------------------- *)

(* The limiter state is [buckets, sweepAt]: the Map rateLimitBuckets, as a *)
(* function from the keys present to [count, expiresAt], and               *)
(* lastRateLimitSweepAt.                                                   *)

(* A sweep that empties the table. *)
pruneExpiredRateLimitBuckets_All(t, st) ==
  IF t - st.sweepAt < 60000 THEN st
  ELSE [buckets |-> [k \in {} |-> st.buckets[k]], sweepAt |-> t]

(* A sweep that waits for more than the 60 seconds to have elapsed. *)
pruneExpiredRateLimitBuckets_Strict(t, st) ==
  IF t - st.sweepAt <= 60000 THEN st
  ELSE [buckets |-> [k \in {x \in DOMAIN st.buckets : ~(st.buckets[x].expiresAt <= t)}
                       |-> st.buckets[k]],
        sweepAt |-> t]

pruneExpiredRateLimitBuckets(t, st) ==
  IF t - st.sweepAt < 60000 THEN st
  ELSE [buckets |-> [k \in {x \in DOMAIN st.buckets : ~(st.buckets[x].expiresAt <= t)}
                       |-> st.buckets[k]],
        sweepAt |-> t]

(* Variants of isRateLimited and secondsUntilReset with one comparison     *)
(* changed; the claims below are checked to tell them from the code.       *)
rateLimitedWith(clientKey, config, t, st, Off(_), Expired(_, _), Full(_, _)) ==
  IF Off(config.maxRequests)
  THEN [limited |-> FALSE, st |-> st]
  ELSE LET p == pruneExpiredRateLimitBuckets(t, st)
           has == clientKey \in DOMAIN p.buckets
       IN IF ~has \/ Expired(p.buckets[clientKey], t)
          THEN [limited |-> FALSE,
                st |-> [p EXCEPT !.buckets =
                          [k \in DOMAIN p.buckets \cup {clientKey} |->
                             IF k = clientKey
                             THEN [count |-> 1, expiresAt |-> t + config.windowMs]
                             ELSE p.buckets[k]]]]
          ELSE IF Full(p.buckets[clientKey], config)
               THEN [limited |-> TRUE, st |-> p]
          ELSE [limited |-> FALSE,
                st |-> [p EXCEPT !.buckets[clientKey].count = @ + 1]]

isRateLimited_OffByOne(clientKey, config, t, st) ==
  rateLimitedWith(clientKey, config, t, st,
                  LAMBDA n : n = 0 \/ n < 0,
                  LAMBDA b, u : b.expiresAt <= u,
                  LAMBDA b, c : b.count > c.maxRequests)

isRateLimited_StrictExpiry(clientKey, config, t, st) ==
  rateLimitedWith(clientKey, config, t, st,
                  LAMBDA n : n = 0 \/ n < 0,
                  LAMBDA b, u : b.expiresAt < u,
                  LAMBDA b, c : b.count >= c.maxRequests)

isRateLimited_ZeroOnly(clientKey, config, t, st) ==
  rateLimitedWith(clientKey, config, t, st,
                  LAMBDA n : n = 0,
                  LAMBDA b, u : b.expiresAt <= u,
                  LAMBDA b, c : b.count >= c.maxRequests)

secondsUntilReset_Floor(clientKey, t, st) ==
  IF clientKey \in DOMAIN st.buckets
  THEN Max(0, (st.buckets[clientKey].expiresAt - t) \div 1000)
  ELSE 0

(* A limiter whose new bucket does not count the request that made it. *)
isRateLimited_FromZero(clientKey, config, t, st) ==
  IF config.maxRequests = 0 \/ config.maxRequests < 0
  THEN [limited |-> FALSE, st |-> st]
  ELSE LET p == pruneExpiredRateLimitBuckets(t, st)
           has == clientKey \in DOMAIN p.buckets
       IN IF ~has \/ p.buckets[clientKey].expiresAt <= t
          THEN [limited |-> FALSE,
                st |-> [p EXCEPT !.buckets =
                          [k \in DOMAIN p.buckets \cup {clientKey} |->
                             IF k = clientKey
                             THEN [count |-> 0, expiresAt |-> t + config.windowMs]
                             ELSE p.buckets[k]]]]
          ELSE IF p.buckets[clientKey].count >= config.maxRequests
               THEN [limited |-> TRUE, st |-> p]
          ELSE [limited |-> FALSE,
                st |-> [p EXCEPT !.buckets[clientKey].count = @ + 1]]

(* A limiter whose window slides: every admitted request restarts it. *)
isRateLimited_Sliding(clientKey, config, t, st) ==
  IF config.maxRequests = 0 \/ config.maxRequests < 0
  THEN [limited |-> FALSE, st |-> st]
  ELSE LET p == pruneExpiredRateLimitBuckets(t, st)
           has == clientKey \in DOMAIN p.buckets
       IN IF ~has \/ p.buckets[clientKey].expiresAt <= t
          THEN [limited |-> FALSE,
                st |-> [p EXCEPT !.buckets =
                          [k \in DOMAIN p.buckets \cup {clientKey} |->
                             IF k = clientKey
                             THEN [count |-> 1, expiresAt |-> t + config.windowMs]
                             ELSE p.buckets[k]]]]
          ELSE IF p.buckets[clientKey].count >= config.maxRequests
               THEN [limited |-> TRUE, st |-> p]
          ELSE [limited |-> FALSE,
                st |-> [p EXCEPT !.buckets[clientKey] =
                          [count |-> @.count + 1, expiresAt |-> t + config.windowMs]]]

(* A limiter whose increment is lost: it writes back the count it read. *)
isRateLimited_LostUpdate(clientKey, config, t, st) ==
  IF config.maxRequests = 0 \/ config.maxRequests < 0
  THEN [limited |-> FALSE, st |-> st]
  ELSE LET p == pruneExpiredRateLimitBuckets(t, st)
           has == clientKey \in DOMAIN p.buckets
       IN IF ~has \/ p.buckets[clientKey].expiresAt <= t
          THEN [limited |-> FALSE,
                st |-> [p EXCEPT !.buckets =
                          [k \in DOMAIN p.buckets \cup {clientKey} |->
                             IF k = clientKey
                             THEN [count |-> 1, expiresAt |-> t + config.windowMs]
                             ELSE p.buckets[k]]]]
          ELSE IF p.buckets[clientKey].count >= config.maxRequests
               THEN [limited |-> TRUE, st |-> p]
          ELSE [limited |-> FALSE, st |-> p]

isRateLimited(clientKey, config, t, st) ==
  IF config.maxRequests = 0 \/ config.maxRequests < 0
  THEN [limited |-> FALSE, st |-> st]
  ELSE LET p == pruneExpiredRateLimitBuckets(t, st)
           has == clientKey \in DOMAIN p.buckets
       IN IF ~has \/ p.buckets[clientKey].expiresAt <= t
          THEN [limited |-> FALSE,
                st |-> [p EXCEPT !.buckets =
                          [k \in DOMAIN p.buckets \cup {clientKey} |->
                             IF k = clientKey
                             THEN [count |-> 1, expiresAt |-> t + config.windowMs]
                             ELSE p.buckets[k]]]]
          ELSE IF p.buckets[clientKey].count >= config.maxRequests
               THEN [limited |-> TRUE, st |-> p]
          ELSE [limited |-> FALSE,
                st |-> [p EXCEPT !.buckets[clientKey].count = @ + 1]]

secondsUntilReset(clientKey, t, st) ==
  IF clientKey \in DOMAIN st.buckets
  THEN Max(0, Ceil(st.buckets[clientKey].expiresAt - t, 1000))
  ELSE 0

(* ------------------------------ handler ------------------------------ *)

(* A request: method, the headers origin, authorization, content-type and  *)
(* x-forwarded-for (each None when absent), the socket's remote address    *)
(* and the prompt of the body: [type |-> "nobody" | "undefined" | "number" *)
(* | "string", length, trimmedLength].                                     *)
NewRes == [status |-> 0, json |-> None, ended |-> FALSE, headers |-> [h \in {} |-> <<>>]]

setHeader(res, name, value) ==
  [res EXCEPT !.headers = [h \in DOMAIN @ \cup {name} |-> IF h = name THEN value ELSE @[h]]]

statusJson(res, code, body) == [res EXCEPT !.status = code, !.json = Some(body)]

statusEnd(res, code) == [res EXCEPT !.status = code, !.ended = TRUE]

(* What the synchronous part of one invocation did: the response object,   *)
(* whether it was sent, the limiter state it left, whether the rate        *)
(* limiter was reached and with which key.                                 *)
Answer(res, st) ==
  [sent |-> TRUE, res |-> res, st |-> st, reached |-> FALSE, clientKey |-> None,
   log |-> <<>>]

(* The arguments of a console call: a literal of the source, a rate-limit  *)
(* key, a number, the status or the text of an upstream response, or an    *)
(* error object.                                                           *)
Literal(s) == [kind |-> "literal", v |-> s]
KeyArg(k) == [kind |-> "key", v |-> k]
NumberArg(n) == [kind |-> "number", v |-> n]
StatusArg(n) == [kind |-> "status", v |-> n]
TextArg(x) == [kind |-> "text", v |-> x]
ErrorArg(err) == [kind |-> "error", v |-> err]

(* console[level](...args) called before the rest r of the invocation *)
console(level, args, r) ==
  [r EXCEPT !.log = <<[level |-> level, args |-> args]>> \o @]

(* A handler that writes the 429 and calls the upstream all the same. *)
rateLimitStage_CallsAnyway(req, e, t, st, res, hashedToken) ==
  LET clientKey == getClientKey(req, hashedToken)
      rlCfg == getRateLimitConfig(e)
      rl == isRateLimited(clientKey, rlCfg, t, st)
  IN IF rl.limited
     THEN LET s == secondsUntilReset(clientKey, t, rl.st)
              retryAfter == IF s # 0 THEN s ELSE Ceil(rlCfg.windowMs, 1000)
          IN console("info",
                     <<Literal("Rate limit exceeded for client"), KeyArg(clientKey),
                       Literal("retry after"), NumberArg(retryAfter)>>,
                     [sent |-> FALSE,
                      res |-> statusJson(setHeader(res, "Retry-After", retryAfter), 429,
                                         [error |-> "Too many requests. Please slow down."]),
                      st |-> rl.st, reached |-> TRUE, clientKey |-> Some(clientKey),
                      log |-> <<>>])
     ELSE [sent |-> FALSE, res |-> res, st |-> rl.st, reached |-> TRUE,
           clientKey |-> Some(clientKey), log |-> <<>>]

(* lines 279-288, then the upstream call of line 294 is pending *)
rateLimitStage(req, e, t, st, res, hashedToken) ==
  LET clientKey == getClientKey(req, hashedToken)
      rlCfg == getRateLimitConfig(e)
      rl == isRateLimited(clientKey, rlCfg, t, st)
  IN IF rl.limited
     THEN LET s == secondsUntilReset(clientKey, t, rl.st)
              retryAfter == IF s # 0 THEN s ELSE Ceil(rlCfg.windowMs, 1000)
          IN console("info",
                     <<Literal("Rate limit exceeded for client"), KeyArg(clientKey),
                       Literal("retry after"), NumberArg(retryAfter)>>,
                     [sent |-> TRUE,
                      res |-> statusJson(setHeader(res, "Retry-After", retryAfter), 429,
                                         [error |-> "Too many requests. Please slow down."]),
                      st |-> rl.st, reached |-> TRUE, clientKey |-> Some(clientKey),
                      log |-> <<>>])
     ELSE [sent |-> FALSE, res |-> res, st |-> rl.st, reached |-> TRUE,
           clientKey |-> Some(clientKey), log |-> <<>>]

(* A validator that looks at the content type before the method. *)
validateStage_TypeFirst(req, e, t, st, res, hashedToken) ==
  IF ~includes(IF req.contentType = None THEN <<>> ELSE req.contentType[1],
               "application/json")
  THEN Answer(statusJson(res, 415, [error |-> "Content-Type must be application/json."]), st)
  ELSE IF req.method # "POST"
  THEN Answer(statusJson(res, 405, [error |-> "Method Not Allowed"]), st)
  ELSE IF req.prompt.type # "string" \/ req.prompt.trimmedLength = 0
  THEN Answer(statusJson(res, 400, [error |-> "Prompt is required in the request body."]), st)
  ELSE IF req.prompt.length > MAX_PROMPT_LENGTH
  THEN Answer(statusJson(res, 413, [error |-> "Prompt is too long."]), st)
  ELSE rateLimitStage(req, e, t, st, res, hashedToken)

(* A validator that is reached only after the rate limiter has counted   *)
(* the request.                                                            *)
validateStage_LimitFirst(req, e, t, st, res, hashedToken) ==
  IF req.method # "POST"
  THEN Answer(statusJson(res, 405, [error |-> "Method Not Allowed"]), st)
  ELSE LET rl == rateLimitStage(req, e, t, st, res, hashedToken)
       IN IF rl.sent THEN rl
          ELSE IF ~includes(IF req.contentType = None THEN <<>> ELSE req.contentType[1],
                            "application/json")
          THEN Answer(statusJson(res, 415,
                      [error |-> "Content-Type must be application/json."]), rl.st)
          ELSE IF req.prompt.type # "string" \/ req.prompt.trimmedLength = 0
          THEN Answer(statusJson(res, 400,
                      [error |-> "Prompt is required in the request body."]), rl.st)
          ELSE IF req.prompt.length > MAX_PROMPT_LENGTH
          THEN Answer(statusJson(res, 413, [error |-> "Prompt is too long."]), rl.st)
          ELSE rl

(* A validator whose length limit is exclusive. *)
validateStage_AtLimit(req, e, t, st, res, hashedToken) ==
  IF req.method # "POST"
  THEN Answer(statusJson(res, 405, [error |-> "Method Not Allowed"]), st)
  ELSE IF ~includes(IF req.contentType = None THEN <<>> ELSE req.contentType[1],
                    "application/json")
  THEN Answer(statusJson(res, 415, [error |-> "Content-Type must be application/json."]), st)
  ELSE IF req.prompt.type # "string" \/ req.prompt.trimmedLength = 0
  THEN Answer(statusJson(res, 400, [error |-> "Prompt is required in the request body."]), st)
  ELSE IF req.prompt.length >= MAX_PROMPT_LENGTH
  THEN Answer(statusJson(res, 413, [error |-> "Prompt is too long."]), st)
  ELSE rateLimitStage(req, e, t, st, res, hashedToken)

(* A validator that takes a prompt of white space for a prompt. *)
validateStage_NoTrim(req, e, t, st, res, hashedToken) ==
  IF req.method # "POST"
  THEN Answer(statusJson(res, 405, [error |-> "Method Not Allowed"]), st)
  ELSE IF ~includes(IF req.contentType = None THEN <<>> ELSE req.contentType[1],
                    "application/json")
  THEN Answer(statusJson(res, 415, [error |-> "Content-Type must be application/json."]), st)
  ELSE IF req.prompt.type # "string" \/ req.prompt.length = 0
  THEN Answer(statusJson(res, 400, [error |-> "Prompt is required in the request body."]), st)
  ELSE IF req.prompt.length > MAX_PROMPT_LENGTH
  THEN Answer(statusJson(res, 413, [error |-> "Prompt is too long."]), st)
  ELSE rateLimitStage(req, e, t, st, res, hashedToken)

(* lines 261-277 *)
validateStage(req, e, t, st, res, hashedToken) ==
  IF req.method # "POST"
  THEN Answer(statusJson(res, 405, [error |-> "Method Not Allowed"]), st)
  ELSE IF ~includes(IF req.contentType = None THEN <<>> ELSE req.contentType[1],
                    "application/json")
  THEN Answer(statusJson(res, 415, [error |-> "Content-Type must be application/json."]), st)
  ELSE IF req.prompt.type # "string" \/ req.prompt.trimmedLength = 0
  THEN Answer(statusJson(res, 400, [error |-> "Prompt is required in the request body."]), st)
  ELSE IF req.prompt.length > MAX_PROMPT_LENGTH
  THEN Answer(statusJson(res, 413, [error |-> "Prompt is too long."]), st)
  ELSE rateLimitStage(req, e, t, st, res, hashedToken)

(* A resolver that skips the token check in every mode when no token is   *)
(* configured.                                                             *)
credentialStage_SkipInProduction(req, e, t, st, res) ==
  LET accessTokens == parseAccessTokens(e)
      raw == getAccessTokenFromHeader(req)
      keyMissing == e.GEMINI_API_KEY = None \/ e.GEMINI_API_KEY = Some(<<>>)
      keyError == [error |-> "Gemini API key is not configured. Set GEMINI_API_KEY with your Gemini key only.",
                   docs |-> "https://ai.google.dev/gemini-api/docs/api-key"]
  IN IF accessTokens # {}
     THEN IF raw = None \/ raw = Some(<<>>) \/ raw[1] \notin accessTokens
          THEN console("info", <<Literal("Rejected: missing/invalid access token.")>>,
                       Answer(statusJson(res, 401,
                              [error |-> "A valid access token is required."]), st))
          ELSE IF keyMissing THEN Answer(statusJson(res, 500, keyError), st)
          ELSE validateStage(req, e, t, st, res, Some(hashToken(raw[1])))
     ELSE console("info",
                  <<Literal("Access tokens not configured; skipping enforcement (non-production).")>>,
                  IF keyMissing THEN Answer(statusJson(res, 500, keyError), st)
                  ELSE validateStage(req, e, t, st, res, None))

(* A resolver that hands the token itself on as the client's identity. *)
credentialStage_RawToken(req, e, t, st, res) ==
  LET accessTokens == parseAccessTokens(e)
      inProduction == isProductionEnvironment(e)
      shouldEnforceAccessToken == accessTokens # {}
      raw == getAccessTokenFromHeader(req)
      keyMissing == e.GEMINI_API_KEY = None \/ e.GEMINI_API_KEY = Some(<<>>)
      keyError == [error |-> "Gemini API key is not configured. Set GEMINI_API_KEY with your Gemini key only.",
                   docs |-> "https://ai.google.dev/gemini-api/docs/api-key"]
  IN IF inProduction /\ ~shouldEnforceAccessToken
     THEN console("error", <<Literal("Access token configuration missing in production.")>>,
                  Answer(statusJson(res, 500,
                         [error |-> "Access token configuration is missing on the server."]), st))
     ELSE IF shouldEnforceAccessToken
     THEN IF raw = None \/ raw = Some(<<>>) \/ raw[1] \notin accessTokens
          THEN console("info", <<Literal("Rejected: missing/invalid access token.")>>,
                       Answer(statusJson(res, 401,
                              [error |-> "A valid access token is required."]), st))
          ELSE IF keyMissing THEN Answer(statusJson(res, 500, keyError), st)
          ELSE validateStage(req, e, t, st, res, Some(concatAtoms(raw[1])))
     ELSE console("info",
                  <<Literal("Access tokens not configured; skipping enforcement (non-production).")>>,
                  IF keyMissing THEN Answer(statusJson(res, 500, keyError), st)
                  ELSE validateStage(req, e, t, st, res, None))

(* A resolver that takes any bearer token for a configured one. *)
credentialStage_AnyToken(req, e, t, st, res) ==
  LET accessTokens == parseAccessTokens(e)
      raw == getAccessTokenFromHeader(req)
      keyMissing == e.GEMINI_API_KEY = None \/ e.GEMINI_API_KEY = Some(<<>>)
      keyError == [error |-> "Gemini API key is not configured. Set GEMINI_API_KEY with your Gemini key only.",
                   docs |-> "https://ai.google.dev/gemini-api/docs/api-key"]
  IN IF isProductionEnvironment(e) /\ accessTokens = {}
     THEN console("error", <<Literal("Access token configuration missing in production.")>>,
                  Answer(statusJson(res, 500,
                         [error |-> "Access token configuration is missing on the server."]), st))
     ELSE IF accessTokens # {}
     THEN IF raw = None \/ raw = Some(<<>>)
          THEN console("info", <<Literal("Rejected: missing/invalid access token.")>>,
                       Answer(statusJson(res, 401,
                              [error |-> "A valid access token is required."]), st))
          ELSE IF keyMissing THEN Answer(statusJson(res, 500, keyError), st)
          ELSE validateStage(req, e, t, st, res, Some(hashToken(raw[1])))
     ELSE console("info",
                  <<Literal("Access tokens not configured; skipping enforcement (non-production).")>>,
                  IF keyMissing THEN Answer(statusJson(res, 500, keyError), st)
                  ELSE validateStage(req, e, t, st, res, None))

(* An invocation that goes on without an upstream key. *)
credentialStage_NoKeyCheck(req, e, t, st, res) ==
  LET accessTokens == parseAccessTokens(e)
      raw == getAccessTokenFromHeader(req)
  IN IF isProductionEnvironment(e) /\ accessTokens = {}
     THEN console("error", <<Literal("Access token configuration missing in production.")>>,
                  Answer(statusJson(res, 500,
                         [error |-> "Access token configuration is missing on the server."]), st))
     ELSE IF accessTokens # {}
     THEN IF raw = None \/ raw = Some(<<>>) \/ raw[1] \notin accessTokens
          THEN console("info", <<Literal("Rejected: missing/invalid access token.")>>,
                       Answer(statusJson(res, 401,
                              [error |-> "A valid access token is required."]), st))
          ELSE validateStage(req, e, t, st, res, Some(hashToken(raw[1])))
     ELSE console("info",
                  <<Literal("Access tokens not configured; skipping enforcement (non-production).")>>,
                  validateStage(req, e, t, st, res, None))

(* lines 231-259 *)
credentialStage(req, e, t, st, res) ==
  LET accessTokens == parseAccessTokens(e)
      inProduction == isProductionEnvironment(e)
      shouldEnforceAccessToken == accessTokens # {}
      raw == getAccessTokenFromHeader(req)
      keyMissing == e.GEMINI_API_KEY = None \/ e.GEMINI_API_KEY = Some(<<>>)
      keyError == [error |-> "Gemini API key is not configured. Set GEMINI_API_KEY with your Gemini key only.",
                   docs |-> "https://ai.google.dev/gemini-api/docs/api-key"]
  IN IF inProduction /\ ~shouldEnforceAccessToken
     THEN console("error", <<Literal("Access token configuration missing in production.")>>,
                  Answer(statusJson(res, 500,
                         [error |-> "Access token configuration is missing on the server."]), st))
     ELSE IF shouldEnforceAccessToken
     THEN IF raw = None \/ raw = Some(<<>>) \/ raw[1] \notin accessTokens
          THEN console("info", <<Literal("Rejected: missing/invalid access token.")>>,
                       Answer(statusJson(res, 401,
                              [error |-> "A valid access token is required."]), st))
          ELSE IF keyMissing THEN Answer(statusJson(res, 500, keyError), st)
          ELSE validateStage(req, e, t, st, res, Some(hashToken(raw[1])))
     ELSE console("info",
                  <<Literal("Access tokens not configured; skipping enforcement (non-production).")>>,
                  IF keyMissing THEN Answer(statusJson(res, 500, keyError), st)
                  ELSE validateStage(req, e, t, st, res, None))

(* An invocation that treats OPTIONS like any other method. *)
preflightStage_Missing(req, e, t, st, res) == credentialStage(req, e, t, st, res)

(* An OPTIONS acknowledgment that sweeps the rate-limit table first. *)
preflightStage_Sweeping(req, e, t, st, res) ==
  IF req.method = "OPTIONS"
  THEN Answer(statusEnd(res, 204), pruneExpiredRateLimitBuckets(t, st))
  ELSE credentialStage(req, e, t, st, res)

(* lines 226-229 *)
preflightStage(req, e, t, st, res) ==
  IF req.method = "OPTIONS" THEN Answer(statusEnd(res, 204), st)
  ELSE credentialStage(req, e, t, st, res)

(* lines 200-224, then the later stages *)
handler(req, e, t, st) ==
  LET allowedOrigins == parseAllowedOrigins(e)
      requestOrigin == IF req.origin = None THEN <<>> ELSE req.origin[1]
      echoOrigin == getCorsOriginToEcho(requestOrigin, allowedOrigins)
      res1 == IF echoOrigin # None /\ echoOrigin # Some(<<>>)
              THEN setHeader(setHeader(NewRes, "Access-Control-Allow-Origin", echoOrigin[1]),
                             "Vary", <<"Origin">>)
              ELSE NewRes
      res2 == setHeader(setHeader(setHeader(res1,
                "Access-Control-Allow-Methods", <<"POST, OPTIONS">>),
                "Access-Control-Allow-Headers", <<"Content-Type, Authorization">>),
                "Access-Control-Max-Age", <<"600">>)
  IN IF allowedOrigins = {} /\ isProductionEnvironment(e)
     THEN console("error", <<Literal("ALLOWED_ORIGINS is not configured in production.")>>,
                  Answer(statusJson(NewRes, 500,
                         [error |-> "CORS configuration is missing on the server."]), st))
     ELSE IF ~isOriginAllowed(requestOrigin, allowedOrigins)
     THEN Answer(statusJson(NewRes, 403, [error |-> "Origin not allowed."]), st)
     ELSE preflightStage(req, e, t, st, res2)

(* ------------------ the client-supplied-key handler ------------------- *)
(* The version of the handler in which the caller brings the upstream key; *)
(* its environment helpers, rate limiter and upstream caller are those     *)
(* above.                                                                  *)

(* pattern.replace(/^https?:\/\//i, '') *)
stripScheme(pattern) ==
  IF pattern # <<>> /\ pattern[1] \in {"https://", "http://"} THEN Tail(pattern)
  ELSE pattern

isWildcardMatchClient(origin, pattern) ==
  LET cleaned == stripScheme(pattern)
  IN IF ~startsWith(cleaned, <<"*", ".">>) THEN FALSE
     ELSE LET h == urlHostname(origin)
              suffix == SubSeq(cleaned, 3, Len(cleaned))
          IN IF h = None THEN FALSE
             ELSE h[1] = suffix \/ endsWith(h[1], <<".">> \o suffix)

isWildcardEntry(entry) ==
  \/ startsWith(entry, <<"*", ".">>)
  \/ startsWith(entry, <<"https://", "*", ".">>)
  \/ startsWith(entry, <<"http://", "*", ".">>)

isOriginAllowedClient(origin, allowed) ==
  IF origin = <<>> THEN TRUE
  ELSE IF <<"*">> \in allowed THEN TRUE
  ELSE IF origin \in allowed THEN TRUE
  ELSE \E entry \in allowed : isWildcardEntry(entry) /\ isWildcardMatchClient(origin, entry)

corsOriginToEcho(origin, allowed) ==
  IF origin = <<>> THEN None
  ELSE IF <<"*">> \in allowed THEN Some(<<"*">>)
  ELSE IF origin \in allowed THEN Some(origin)
  ELSE IF \E entry \in allowed :
            isWildcardEntry(entry) /\ isWildcardMatchClient(origin, entry)
       THEN Some(origin)
  ELSE None

(* A resolver that prefers the Authorization header. *)
getClientGeminiKey_BearerFirst(req) ==
  LET m == getAccessTokenFromHeader(req)
  IN IF m # None THEN m[1]
     ELSE IF req.geminiKey # None /\ trim(req.geminiKey[1]) # <<>>
     THEN trim(req.geminiKey[1])
     ELSE <<>>

(* the key the caller brings, '' if none *)
getClientGeminiKey(req) ==
  IF req.geminiKey # None /\ trim(req.geminiKey[1]) # <<>>
  THEN trim(req.geminiKey[1])
  ELSE LET m == getAccessTokenFromHeader(req)
       IN IF m # None THEN m[1] ELSE <<>>

clientKeyForRateLimit(req, clientGeminiKey) ==
  IF clientGeminiKey # <<>> THEN <<"gem:", hashToken(clientGeminiKey)>>
  ELSE IF req.xff # None /\ trim(req.xff[1]) # <<>>
       THEN trim(split(req.xff[1])[1])
  ELSE IF req.remoteAddress # None /\ req.remoteAddress[1] # <<>>
       THEN req.remoteAddress[1]
  ELSE <<"unknown">>

(* What the synchronous part of one invocation did, with the key it hands  *)
(* to callGeminiWithRetry.                                                 *)
AnswerClient(res, st) ==
  [sent |-> TRUE, res |-> res, st |-> st, reached |-> FALSE, clientKey |-> None,
   apiKey |-> None, log |-> <<>>]

(* the handler from the client key check to the upstream call *)
clientKeyStage(req, e, t, st, res) ==
  LET clientGeminiKey == getClientGeminiKey(req)
      bucketKey == clientKeyForRateLimit(req, clientGeminiKey)
      rlCfg == getRateLimitConfig(e)
      rl == isRateLimited(bucketKey, rlCfg, t, st)
      s == secondsUntilReset(bucketKey, t, rl.st)
      retryAfter == IF s # 0 THEN s ELSE Ceil(rlCfg.windowMs, 1000)
  IN IF clientGeminiKey = <<>>
     THEN AnswerClient(statusJson(res, 401, [error |-> "Gemini API key is required."]), st)
     ELSE IF req.prompt.type # "string" \/ req.prompt.trimmedLength = 0
     THEN AnswerClient(statusJson(res, 400,
                       [error |-> "Prompt is required in the request body."]), st)
     ELSE IF req.prompt.length > MAX_PROMPT_LENGTH
     THEN AnswerClient(statusJson(res, 413, [error |-> "Prompt is too long."]), st)
     ELSE IF rl.limited
     THEN [sent |-> TRUE,
           res |-> statusJson(setHeader(res, "Retry-After", retryAfter), 429,
                              [error |-> "Too many requests. Please slow down."]),
           st |-> rl.st, reached |-> TRUE, clientKey |-> Some(bucketKey), apiKey |-> None,
           log |-> <<>>]
     ELSE [sent |-> FALSE, res |-> res, st |-> rl.st, reached |-> TRUE,
           clientKey |-> Some(bucketKey), apiKey |-> Some(clientGeminiKey), log |-> <<>>]

(* the handler up to the client key check *)
clientHandler(req, e, t, st) ==
  LET allowed == parseAllowedOrigins(e)
      origin == IF req.origin = None THEN <<>> ELSE req.origin[1]
      echo == corsOriginToEcho(origin, allowed)
      res1 == IF echo # None /\ echo # Some(<<>>)
              THEN setHeader(setHeader(NewRes, "Access-Control-Allow-Origin", echo[1]),
                             "Vary", <<"Origin">>)
              ELSE NewRes
      res2 == setHeader(setHeader(setHeader(res1,
                "Access-Control-Allow-Methods", <<"POST, OPTIONS">>),
                "Access-Control-Allow-Headers",
                <<"Content-Type, Authorization, X-Gemini-Api-Key">>),
                "Access-Control-Max-Age", <<"600">>)
  IN IF allowed = {} /\ isProductionEnvironment(e)
     THEN AnswerClient(statusJson(NewRes, 500,
                       [error |-> "CORS configuration is missing on the server."]), st)
     ELSE IF ~isOriginAllowedClient(origin, allowed)
     THEN AnswerClient(statusJson(NewRes, 403, [error |-> "Origin not allowed."]), st)
     ELSE IF req.method = "OPTIONS" THEN AnswerClient(statusEnd(res2, 204), st)
     ELSE IF req.method # "POST"
     THEN AnswerClient(statusJson(res2, 405, [error |-> "Method Not Allowed"]), st)
     ELSE IF ~includes(IF req.contentType = None THEN <<>> ELSE req.contentType[1],
                       "application/json")
     THEN AnswerClient(statusJson(res2, 415,
                       [error |-> "Content-Type must be application/json."]), st)
     ELSE clientKeyStage(req, e, t, st, res2)

(* --------------------------- upstream caller -------------------------- *)

(* A caller that gives up at the first 5xx response. *)
callGeminiStep_NoRetry5xx(attempt, maxRetries, outcome) ==
  CASE outcome = "ok" -> "return"
    [] outcome \in {"badjson", "s5xx", "neterr"} -> "throw"
    [] outcome \in {"s4xx", "abort", "fetcherr"} ->
         IF attempt > maxRetries THEN "throw" ELSE "delay"

(* A caller whose loop runs once more. *)
callGeminiStep_OneMore(attempt, maxRetries, outcome) ==
  CASE outcome = "ok" -> "return"
    [] outcome = "badjson" -> "throw"
    [] outcome = "s5xx" /\ attempt <= maxRetries + 1 -> "continue"
    [] outcome \in {"s4xx", "s5xx", "abort", "fetcherr"}
         /\ ~(outcome = "s5xx" /\ attempt <= maxRetries + 1) ->
         IF attempt > maxRetries + 1 THEN "throw" ELSE "delay"
    [] outcome = "neterr" -> "throw"

(* One pass of the loop of callGeminiWithRetry once the fetch of attempt   *)
(* `attempt` has settled with `outcome`: "ok" (response.ok and a JSON      *)
(* body), "badjson" (response.ok, resp.json() rejects), "s4xx", "s5xx",    *)
(* "abort" (AbortError, the timeout), "fetcherr" (a rejection named        *)
(* FetchError), "neterr" (any other rejection of fetch).                   *)
callGeminiStep(attempt, maxRetries, outcome) ==
  CASE outcome = "ok" -> "return"
    [] outcome = "badjson" -> "throw"
    [] outcome = "s5xx" /\ attempt <= maxRetries -> "continue"
    [] outcome \in {"s4xx", "s5xx", "abort", "fetcherr"}
         /\ ~(outcome = "s5xx" /\ attempt <= maxRetries) ->
         IF attempt > maxRetries THEN "throw" ELSE "delay"
    [] outcome = "neterr" -> "throw"

(* ------------------------------- bounds ------------------------------- *)

MaxInflight == 1    \* invocations awaiting the upstream at once
MaxBurst == 3       \* requests of one key that reach the limiter in one window
MaxTicks == 1       \* clock readings after each of the two epochs 0 and 60000
MaxPending == 2     \* createRequest calls of the page awaiting a response at once
MaxCalls == 3       \* createRequest calls of the page in one behaviour

TimePoints == {k * 500 : k \in 0..MaxTicks} \cup {60000 + k * 1500 : k \in 0..MaxTicks}

(* ----------------------------- test data ------------------------------ *)

OriginAB == <<"https://", "a", ".", "b">>
OriginSub == <<"https://", "sub", ".", "a", ".", "b">>
OriginEvil == <<"https://", "evil", "a", ".", "b">>
OriginUpper == <<"https://", "A", ".", "b">>
OriginPort == <<"https://", "a", ".", "b", ":8080">>
OriginNull == <<"null">>

Env(ve, ne, ao, tok, key, n, w, r) ==
  [VERCEL_ENV |-> ve, NODE_ENV |-> ne, ALLOWED_ORIGINS |-> ao,
   GENERATE_INSIGHT_ACCESS_TOKENS |-> tok, GEMINI_API_KEY |-> key,
   GENERATE_INSIGHT_MAX_REQUESTS |-> n, GENERATE_INSIGHT_WINDOW_MS |-> w,
   GENERATE_INSIGHT_TIMEOUT_MS |-> None, GENERATE_INSIGHT_MAX_RETRIES |-> r]

Req(m, o, a, ct, p, x, ra) ==
  [method |-> m, origin |-> o, authorization |-> a, contentType |-> ct,
   prompt |-> p, xff |-> x, remoteAddress |-> ra]

(* a request with an X-Gemini-Api-Key header *)
ClientReq(m, o, a, k, ct, p, x, ra) ==
  [method |-> m, origin |-> o, authorization |-> a, geminiKey |-> k, contentType |-> ct,
   prompt |-> p, xff |-> x, remoteAddress |-> ra]

Prompt(n, m) == [type |-> "string", length |-> n, trimmedLength |-> m]
NoPrompt(ty) == [type |-> ty, length |-> 0, trimmedLength |-> 0]

Json == Some(<<"application/json">>)
BearerT1 == Some(<<"Bearer", " ", "t1">>)
BearerT2 == Some(<<"bearer", " ", " ", "t2", " ">>)
TwoTokens == Some(<<"t1", ",", " ", "t2">>)
ApiKey == Some(<<"key">>)

NoReq == Req("none", None, None, None, NoPrompt("nobody"), None, None)

(* ------------------------------- state -------------------------------- *)

VARIABLES
  env,                    \* process.env, fixed for the life of the process
  now,                    \* Date.now()
  rateLimitBuckets,       \* the Map of line 17
  lastRateLimitSweepAt,   \* line 18
  inv,                    \* the invocations suspended in callGeminiWithRetry: where
                          \* each is (awaiting the fetch, the body of its response
                          \* or the retry delay), whether the timer of line 160 is
                          \* set, its attempt counter and its response object
  last,                   \* what the latest step did, if it ran a handler: its
                          \* synchronous part (prior: the key's bucket before it,
                          \* changed: whether it changed the limiter's state,
                          \* swept: the keys it left without a bucket)
                          \* or the settling of its upstream call
  windows,                \* per client key with an open window [t0, t0 + windowMs):
                          \* the requests that reached the limiter in it
  document,               \* the page of the AI generator: the elements whose
                          \* classList holds 'hidden' and the textContent of the
                          \* text elements
  activeToken,            \* ai-generator.js line 285
  requests,               \* the createRequest calls suspended at an await: the
                          \* ui each was called with, where it waits and the
                          \* response it got
  history                 \* per loading element, the createRequest calls made on it

vars == <<env, now, rateLimitBuckets, lastRateLimitSweepAt, inv, last, windows,
          document, activeToken, requests, history>>

page == <<document, activeToken, requests, history>>

Pending == 1..MaxPending

(* buildUiContext and the overrides of the project and publication        *)
(* handlers: elements are named by their ids. The overrides leave         *)
(* copyButton as uiContext has it.                                         *)
buildUiContext ==
  [loadingElement |-> "loadingIndicator", resultElement |-> "resultContainer",
   errorElement |-> "errorContainer", errorMessageElement |-> "errorMessage",
   textElement |-> "insightText", copyButton |-> "copyInsightBtn"]

projectUi ==
  [buildUiContext EXCEPT !.loadingElement = "projectLoadingIndicator",
                         !.resultElement = "projectInsightContainer",
                         !.errorElement = "projectErrorContainer",
                         !.errorMessageElement = "projectErrorMessage",
                         !.textElement = "projectInsightText"]

publicationUi ==
  [buildUiContext EXCEPT !.loadingElement = "publicationLoadingIndicator",
                         !.resultElement = "publicationInsightContainer",
                         !.errorElement = "publicationErrorContainer",
                         !.errorMessageElement = "publicationErrorMessage",
                         !.textElement = "publicationInsightText"]

Uis == {buildUiContext, projectUi, publicationUi}

Toggled ==
  UNION {{u.loadingElement, u.resultElement, u.errorElement, u.copyButton} : u \in Uis}

TextElements ==
  UNION {{u.errorMessageElement, u.textElement} : u \in Uis}
    \cup {"projectInsightTitle", "publicationInsightTitle"}

NoCall == [pc |-> "idle", ui |-> buildUiContext, ok |-> FALSE]

(* The page as loaded: every indicator, container and the copy button     *)
(* carry 'hidden', the text elements are empty, nothing is in flight.     *)
PageLoaded(tokens) ==
  /\ document = [hidden |-> Toggled, textContent |-> [e \in TextElements |-> ""]]
  /\ activeToken \in tokens
  /\ requests = [c \in Pending |-> NoCall]
  /\ history = [e \in {u.loadingElement : u \in Uis} |-> 0]

Slots == 1..MaxInflight

(* What the fetches of one invocation did so far: how many have settled,   *)
(* how the latest settled, whether all before the latest were 5xx          *)
(* responses, and whether all of them were aborted by the timeout.         *)
NoFetch == [n |-> 0, prev |-> "none", before5xx |-> TRUE, onlyAbort |-> TRUE]

noteFetch(h, outcome) ==
  [n |-> h.n + 1, prev |-> outcome,
   before5xx |-> h.before5xx /\ h.prev \in {"none", "s5xx"},
   onlyAbort |-> h.onlyAbort /\ outcome = "abort"]

IdleInv ==
  [pc |-> "idle", attempt |-> 0, wake |-> 0, timer |-> FALSE, res |-> NewRes,
   clientKey |-> None,
   fetched |-> NoFetch]

NoEvent == [kind |-> "none", req |-> NoReq, res |-> NewRes, sent |-> FALSE,
            reached |-> FALSE, clientKey |-> None, prior |-> None, changed |-> FALSE,
            calls |-> 0, fetched |-> NoFetch, log |-> <<>>, swept |-> {}]

limiterState == [buckets |-> rateLimitBuckets, sweepAt |-> lastRateLimitSweepAt]

InitWith(envs) ==
  /\ env \in envs
  /\ now = 0
  /\ rateLimitBuckets = [k \in {} |-> 0]
  /\ lastRateLimitSweepAt = 0
  /\ inv = [i \in Slots |-> IdleInv]
  /\ last = NoEvent
  /\ windows = [k \in {} |-> 0]
  /\ PageLoaded({""})

(* The window bookkeeping of a key: t0 is the time of the first request    *)
(* that reached the limiter when the key had no open window, reached and   *)
(* admitted count the requests at t0 <= t < t0 + windowMs.                 *)
noteWindow(w, key, t, admitted, windowMs) ==
  LET fresh == IF key \notin DOMAIN w THEN TRUE ELSE t >= w[key].t0 + windowMs
      inc == IF admitted THEN 1 ELSE 0
  IN [k \in DOMAIN w \cup {key} |->
        IF k # key THEN w[k]
        ELSE IF fresh THEN [t0 |-> t, reached |-> 1, admitted |-> inc]
        ELSE [t0 |-> w[k].t0, reached |-> w[k].reached + 1,
              admitted |-> w[k].admitted + inc]]

(* the windows still open at time t *)
openWindows(w, t, windowMs) ==
  [k \in {x \in DOMAIN w : t < w[x].t0 + windowMs} |-> w[k]]

burstLeft(w, key, t, windowMs) ==
  IF key \notin DOMAIN w THEN TRUE
  ELSE IF t >= w[key].t0 + windowMs THEN TRUE
  ELSE w[key].reached < MaxBurst

(* ------------------------------ actions ------------------------------- *)

(* module.exports(req, res) up to its first await or its response *)
Receive(req) ==
  \E r \in {handler(req, env, now, limiterState)} :
    LET free == {i \in Slots : inv[i].pc = "idle"}
        w == getRateLimitConfig(env).windowMs
    IN /\ (IF r.sent THEN TRUE ELSE free # {})
       /\ (IF r.reached THEN burstLeft(windows, r.clientKey[1], now, w) ELSE TRUE)
       /\ rateLimitBuckets' = r.st.buckets
       /\ lastRateLimitSweepAt' = r.st.sweepAt
       /\ last' = [kind |-> "sync", req |-> req, res |-> r.res, sent |-> r.sent,
                   reached |-> r.reached, clientKey |-> r.clientKey,
                   prior |-> IF r.reached /\ r.clientKey[1] \in DOMAIN rateLimitBuckets
                             THEN Some(rateLimitBuckets[r.clientKey[1]]) ELSE None,
                   changed |-> r.st # limiterState, calls |-> 0, fetched |-> NoFetch,
                   log |-> r.log,
                   swept |-> DOMAIN rateLimitBuckets \ DOMAIN r.st.buckets]
       /\ windows' = IF r.reached
                     THEN noteWindow(windows, r.clientKey[1], now, ~r.sent, w)
                     ELSE windows
       /\ inv' = IF r.sent THEN inv
                 ELSE LET i == CHOOSE j \in free : \A k \in free : j <= k
                      IN [inv EXCEPT ![i] = [pc |-> "fetch", attempt |-> 1, wake |-> 0,
                                             timer |-> TRUE,
                                             res |-> r.res, clientKey |-> r.clientKey,
                                             fetched |-> NoFetch]]
       /\ UNCHANGED <<page, env, now>>

(* the client-supplied-key handler up to its response or its first await *)
ReceiveClient(req) ==
  \E r \in {clientHandler(req, env, now, limiterState)} :
    LET free == {i \in Slots : inv[i].pc = "idle"}
        w == getRateLimitConfig(env).windowMs
    IN /\ (IF r.sent THEN TRUE ELSE free # {})
       /\ (IF r.reached THEN burstLeft(windows, r.clientKey[1], now, w) ELSE TRUE)
       /\ rateLimitBuckets' = r.st.buckets
       /\ lastRateLimitSweepAt' = r.st.sweepAt
       /\ last' = [kind |-> "sync", req |-> req, res |-> r.res, sent |-> r.sent,
                   reached |-> r.reached, clientKey |-> r.clientKey,
                   prior |-> IF r.reached /\ r.clientKey[1] \in DOMAIN rateLimitBuckets
                             THEN Some(rateLimitBuckets[r.clientKey[1]]) ELSE None,
                   changed |-> r.st # limiterState, calls |-> 0, fetched |-> NoFetch,
                   log |-> r.log, apiKey |-> r.apiKey,
                   swept |-> DOMAIN rateLimitBuckets \ DOMAIN r.st.buckets]
       /\ windows' = IF r.reached
                     THEN noteWindow(windows, r.clientKey[1], now, ~r.sent, w)
                     ELSE windows
       /\ inv' = IF r.sent THEN inv
                 ELSE LET i == CHOOSE j \in free : \A k \in free : j <= k
                      IN [inv EXCEPT ![i] = [pc |-> "fetch", attempt |-> 1, wake |-> 0,
                                             timer |-> TRUE,
                                             res |-> r.res, clientKey |-> r.clientKey,
                                             fetched |-> NoFetch]]
       /\ UNCHANGED <<page, env, now>>

(* the error callGeminiWithRetry throws when an attempt settles this way *)
errorOf(outcome) ==
  CASE outcome = "abort" -> [name |-> "AbortError", message |-> "This operation was aborted"]
    [] outcome = "fetcherr" -> [name |-> "FetchError", message |-> "request failed"]
    [] outcome = "neterr" -> [name |-> "TypeError", message |-> "fetch failed"]
    [] outcome = "badjson" -> [name |-> "SyntaxError", message |-> "Unexpected token"]
    [] OTHER -> [name |-> "Error", message |-> "Upstream request failed."]

(* the console calls of lines 183 and 297 on one pass of the loop *)
upstreamLog(step, outcome) ==
  (IF outcome \in {"s4xx", "s5xx"}
   THEN <<[level |-> "warn",
           args |-> <<Literal("Gemini non-OK"),
                      StatusArg(IF outcome = "s4xx" THEN 400 ELSE 503),
                      TextArg("upstream body")>>]>>
   ELSE <<>>)
  \o (IF step = "throw"
      THEN <<[level |-> "error",
              args |-> <<Literal("API call error:"), ErrorArg(errorOf(outcome))>>]>>
      ELSE <<>>)

(* A handler without the catch of lines 296-299: a failure of the         *)
(* upstream caller ends the invocation with no response.                   *)
FetchSettles_Escape(i, outcome) ==
  LET s == inv[i]
      step == callGeminiStep(s.attempt, getRequestConfig(env).maxRetries, outcome)
      settled(res) == [kind |-> "settled", req |-> NoReq, res |-> res, sent |-> TRUE,
                       reached |-> TRUE, clientKey |-> s.clientKey, prior |-> None,
                       changed |-> FALSE, calls |-> s.attempt,
                       fetched |-> noteFetch(s.fetched, outcome),
                       log |-> upstreamLog(step, outcome), swept |-> {}]
  IN /\ s.pc \in {"fetch", "body"}
     /\ s.pc = "body" => outcome \in {"ok", "badjson", "s4xx", "s5xx"}
     /\ outcome = "abort" => s.timer
     /\ CASE step = "return" ->
               /\ last' = settled(statusJson(s.res, 200, [data |-> s.attempt]))
               /\ inv' = [inv EXCEPT ![i] = IdleInv]
          [] step = "throw" ->
               /\ last' = settled(s.res)
               /\ inv' = [inv EXCEPT ![i] = IdleInv]
          [] step = "continue" ->
               /\ inv' = [inv EXCEPT ![i].pc = "fetch", ![i].timer = TRUE,
                                      ![i].attempt = @ + 1,
                                      ![i].fetched = noteFetch(@, outcome)]
               /\ last' = [NoEvent EXCEPT !.log = upstreamLog(step, outcome)]
          [] step = "delay" ->
               /\ inv' = [inv EXCEPT ![i].pc = "delay", ![i].wake = now + 200 * s.attempt,
                                      ![i].timer = FALSE,
                                      ![i].fetched = noteFetch(@, outcome)]
               /\ last' = [NoEvent EXCEPT !.log = upstreamLog(step, outcome)]
     /\ UNCHANGED <<page, env, now, rateLimitBuckets, lastRateLimitSweepAt, windows>>

(* A handler that tells the client how the upstream failed. *)
FetchSettles_Leaky(i, outcome) ==
  LET s == inv[i]
      step == callGeminiStep(s.attempt, getRequestConfig(env).maxRetries, outcome)
      settled(res) == [kind |-> "settled", req |-> NoReq, res |-> res, sent |-> TRUE,
                       reached |-> TRUE, clientKey |-> s.clientKey, prior |-> None,
                       changed |-> FALSE, calls |-> s.attempt,
                       fetched |-> noteFetch(s.fetched, outcome),
                       log |-> upstreamLog(step, outcome), swept |-> {}]
  IN /\ s.pc \in {"fetch", "body"}
     /\ s.pc = "body" => outcome \in {"ok", "badjson", "s4xx", "s5xx"}
     /\ outcome = "abort" => s.timer
     /\ CASE step = "return" ->
               /\ last' = settled(statusJson(s.res, 200, [data |-> s.attempt]))
               /\ inv' = [inv EXCEPT ![i] = IdleInv]
          [] step = "throw" ->
               /\ last' = settled(statusJson(s.res, 500, [error |-> outcome]))
               /\ inv' = [inv EXCEPT ![i] = IdleInv]
          [] step = "continue" ->
               /\ inv' = [inv EXCEPT ![i].pc = "fetch", ![i].timer = TRUE,
                                      ![i].attempt = @ + 1,
                                      ![i].fetched = noteFetch(@, outcome)]
               /\ last' = [NoEvent EXCEPT !.log = upstreamLog(step, outcome)]
          [] step = "delay" ->
               /\ inv' = [inv EXCEPT ![i].pc = "delay", ![i].wake = now + 200 * s.attempt,
                                      ![i].timer = FALSE,
                                      ![i].fetched = noteFetch(@, outcome)]
               /\ last' = [NoEvent EXCEPT !.log = upstreamLog(step, outcome)]
     /\ UNCHANGED <<page, env, now, rateLimitBuckets, lastRateLimitSweepAt, windows>>

(* The fetch of attempt inv[i].attempt settles, with the body of its      *)
(* response if it has one; lines 176-196 and 294-299. Once the response   *)
(* is there only its body is awaited, and only the timer raises an        *)
(* AbortError.                                                            *)
FetchSettles(i, outcome) ==
  LET s == inv[i]
      step == callGeminiStep(s.attempt, getRequestConfig(env).maxRetries, outcome)
      settled(res) == [kind |-> "settled", req |-> NoReq, res |-> res, sent |-> TRUE,
                       reached |-> TRUE, clientKey |-> s.clientKey, prior |-> None,
                       changed |-> FALSE, calls |-> s.attempt,
                       fetched |-> noteFetch(s.fetched, outcome),
                       log |-> upstreamLog(step, outcome), swept |-> {}]
  IN /\ s.pc \in {"fetch", "body"}
     /\ s.pc = "body" => outcome \in {"ok", "badjson", "s4xx", "s5xx"}
     /\ outcome = "abort" => s.timer
     /\ CASE step = "return" ->
               /\ last' = settled(statusJson(s.res, 200, [data |-> s.attempt]))
               /\ inv' = [inv EXCEPT ![i] = IdleInv]
          [] step = "throw" ->
               /\ last' = settled(statusJson(s.res, 500, [error |-> "Failed to generate insight."]))
               /\ inv' = [inv EXCEPT ![i] = IdleInv]
          [] step = "continue" ->
               /\ inv' = [inv EXCEPT ![i].pc = "fetch", ![i].timer = TRUE,
                                      ![i].attempt = @ + 1,
                                      ![i].fetched = noteFetch(@, outcome)]
               /\ last' = [NoEvent EXCEPT !.log = upstreamLog(step, outcome)]
          [] step = "delay" ->
               /\ inv' = [inv EXCEPT ![i].pc = "delay", ![i].wake = now + 200 * s.attempt,
                                      ![i].timer = FALSE,
                                      ![i].fetched = noteFetch(@, outcome)]
               /\ last' = [NoEvent EXCEPT !.log = upstreamLog(step, outcome)]
     /\ UNCHANGED <<page, env, now, rateLimitBuckets, lastRateLimitSweepAt, windows>>

(* The fetch of line 162 resolves with a response, whose body is still to *)
(* come: the finally of lines 163-165 clears the timer, and resp.json()   *)
(* (line 187) or resp.text() (line 182) waits for the body.               *)
HeadersArrive(i) ==
  /\ inv[i].pc = "fetch"
  /\ inv' = [inv EXCEPT ![i].pc = "body", ![i].timer = FALSE]
  /\ last' = NoEvent
  /\ UNCHANGED <<page, env, now, rateLimitBuckets, lastRateLimitSweepAt, windows>>

(* the timer of line 160 fires: controller.abort() rejects the fetch *)
TimerFires(i) == FetchSettles(i, "abort")

(* the timer of line 192 fires and the loop starts its next attempt *)
DelayDone(i) ==
  /\ inv[i].pc = "delay"
  /\ now >= inv[i].wake
  /\ inv' = [inv EXCEPT ![i].pc = "fetch", ![i].attempt = @ + 1, ![i].wake = 0,
                         ![i].timer = TRUE]
  /\ last' = NoEvent
  /\ UNCHANGED <<page, env, now, rateLimitBuckets, lastRateLimitSweepAt, windows>>

Tick(t) ==
  /\ t > now
  /\ now' = t
  /\ last' = NoEvent
  /\ windows' = openWindows(windows, t, getRateLimitConfig(env).windowMs)
  /\ UNCHANGED <<page, env, rateLimitBuckets, lastRateLimitSweepAt, inv>>

Outcomes == {"ok", "badjson", "s4xx", "s5xx", "abort", "fetcherr", "neterr"}

(* ------------------- the rate limiter's specification ----------------- *)

RateEnvs ==
  {Env(None, None, Some(<<"*">>), None, ApiKey, Some(<<"1">>), Some(<<"1500">>), Some(<<"0">>)),
   Env(None, None, Some(<<"*">>), TwoTokens, ApiKey, Some(<<" ", "2">>), Some(<<"1500">>), Some(<<"0">>)),
   Env(None, None, Some(<<"*">>), TwoTokens, ApiKey, Some(<<"1">>), Some(<<"0">>), Some(<<"0">>)),
   Env(None, None, Some(<<"*">>), None, ApiKey, Some(<<"0">>), Some(<<"1500">>), Some(<<"1">>)),
   Env(None, None, Some(<<"*">>), TwoTokens, ApiKey, Some(<<"-1">>), None, Some(<<"0">>)),
   Env(None, None, Some(<<"*">>), None, ApiKey, Some(<<>>), Some(<<"abc">>), Some(<<"0">>))}

RateRequests ==
  {Req("POST", Some(OriginAB), a, Json, Prompt(5, 5), x, None) :
     a \in {None, BearerT1},
     x \in {None, Some(<<"1.1.1.1", ",", " ", "2.2.2.2">>)}}
  \cup {Req("POST", Some(OriginAB), BearerT2, Json, Prompt(5, 5), None, None),
        Req("GET", Some(OriginAB), BearerT1, Json, Prompt(5, 5), None, None),
        Req("OPTIONS", Some(OriginAB), None, None, NoPrompt("nobody"), None, None),
        Req("POST", Some(OriginAB), BearerT1, Json, Prompt(4001, 4001), None, None)}

Init == InitWith(RateEnvs)

Next ==
  \/ \E req \in RateRequests : Receive(req)
  \/ \E i \in Slots, o \in {"ok", "abort"} : FetchSettles(i, o)
  \/ \E i \in Slots : DelayDone(i)
  \/ \E t \in TimePoints : Tick(t)

Spec == Init /\ [][Next]_vars

(* ------------------------------ C1 - C4 ------------------------------- *)

rlCfg == getRateLimitConfig(env)

TooMany == Some([error |-> "Too many requests. Please slow down."])

Rejected == last.kind = "sync" /\ last.reached /\ last.sent
Admitted == last.kind = "sync" /\ last.reached /\ ~last.sent

(* C1: with maxRequests = N >= 1, of the requests of one key that reach    *)
(* the limiter at t0 <= t < t0 + windowMs exactly the first N are admitted *)
(* and every later one is answered 429 "Too many requests. Please slow     *)
(* down."                                                                  *)
C1_FixedWindowAdmission ==
  rlCfg.maxRequests >= 1 =>
    /\ \A k \in DOMAIN windows :
         windows[k].admitted = Min(windows[k].reached, rlCfg.maxRequests)
    /\ Rejected => /\ last.res.status = 429
                   /\ last.res.json = TooMany
                   /\ windows[last.clientKey[1]].reached > rlCfg.maxRequests
    /\ Admitted => windows[last.clientKey[1]].reached <= rlCfg.maxRequests

C1_Witness ==
  /\ rlCfg.maxRequests = 2
  /\ Rejected
  /\ windows[last.clientKey[1]].reached = 3
  /\ windows[last.clientKey[1]].admitted = 2

(* C2: every 429 carries Retry-After = ceil((expiresAt - now) / 1000) of   *)
(* the client's bucket, at least 1 and at most ceil(windowMs / 1000); no   *)
(* other response carries Retry-After.                                     *)
C2_RetryAfter ==
  (last.kind # "none" /\ last.sent) =>
    IF last.res.status = 429
    THEN /\ "Retry-After" \in DOMAIN last.res.headers
         /\ last.clientKey[1] \in DOMAIN rateLimitBuckets
         /\ LET left == rateLimitBuckets[last.clientKey[1]].expiresAt - now
                secs == last.res.headers["Retry-After"]
            IN /\ (secs - 1) * 1000 < left
               /\ left <= secs * 1000
               /\ secs >= 1
               /\ (secs - 1) * 1000 < rlCfg.windowMs
    ELSE "Retry-After" \notin DOMAIN last.res.headers

C2_Witness ==
  /\ Rejected
  /\ last.res.status = 429
  /\ last.res.headers["Retry-After"] = 2
  /\ rateLimitBuckets[last.clientKey[1]].expiresAt - now = 1500

(* C3: a request that reaches the limiter when its key's bucket has        *)
(* expired (now >= expiresAt) is admitted, even if the bucket was full,    *)
(* and the bucket is replaced by count = 1, expiresAt = now + windowMs.    *)
C3_WindowReset ==
  (last.kind = "sync" /\ last.reached /\ last.prior # None
     /\ last.prior[1].expiresAt <= now) =>
    /\ ~last.sent
    /\ last.clientKey[1] \in DOMAIN rateLimitBuckets
    /\ rateLimitBuckets[last.clientKey[1]] =
         [count |-> 1, expiresAt |-> now + rlCfg.windowMs]

C3_Witness ==
  /\ Admitted
  /\ last.prior # None
  /\ last.prior[1].expiresAt <= now
  /\ last.prior[1].count >= rlCfg.maxRequests
  /\ rateLimitBuckets[last.clientKey[1]].count = 1

(* C4: with maxRequests zero or negative no request is ever answered 429:  *)
(* every request that reaches the limiter is admitted.                     *)
C4_LimiterDisabled ==
  rlCfg.maxRequests <= 0 =>
    /\ last.res.status # 429
    /\ ~Rejected
    /\ \A k \in DOMAIN windows : windows[k].admitted = windows[k].reached

C4_Witness ==
  /\ rlCfg.maxRequests < 0
  /\ Admitted
  /\ windows[last.clientKey[1]].reached = 3

(* ------------------- the origin policy's specification ---------------- *)

OriginEnvs ==
  {Env(m[1], m[2], ao, TwoTokens, ApiKey, Some(<<"1">>), Some(<<"1500">>), Some(<<"0">>)) :
     m \in {<<Some(<<" ", "Production">>), None>>,
            <<Some(<<"preview">>), Some(<<"production">>)>>,
            <<None, Some(<<"production">>)>>},
     ao \in {None, Some(<<" ">>), Some(<<",">>), Some(<<"*">>), Some(OriginAB),
             Some(<<" ", "*", ".", "a", ".", "b", " ", ",", "https://", "c">>)}}
  \cup {Env(None, None, ao, None, ApiKey, Some(<<"1">>), Some(<<"1500">>), Some(<<"1">>)) :
          ao \in {None, Some(<<",">>)}}

OriginRequests ==
  {Req(m, o, None, Json, Prompt(5, 5), None, None) :
     m \in {"POST", "OPTIONS"},
     o \in {None, Some(<<>>), Some(OriginAB), Some(OriginSub), Some(OriginEvil),
            Some(OriginUpper), Some(OriginPort), Some(OriginNull)}}
  \cup {Req(m, o, BearerT1, Json, Prompt(5, 5), None, None) :
          m \in {"POST", "OPTIONS"}, o \in {None, Some(OriginSub), Some(OriginEvil)}}
  \cup {Req("OPTIONS", Some(OriginAB), Some(<<"Bearer", " ", "nope">>), None,
            NoPrompt("nobody"), None, None)}

InitOrigin == InitWith(OriginEnvs)

NextOrigin ==
  \/ \E req \in OriginRequests : Receive(req)
  \/ \E i \in Slots, o \in {"ok", "abort"} : FetchSettles(i, o)
  \/ \E i \in Slots : DelayDone(i)
  \/ \E t \in TimePoints : Tick(t)

SpecOrigin == InitOrigin /\ [][NextOrigin]_vars

(* ---------------------- claims on the origin policy ------------------- *)

allowedSet == parseAllowedOrigins(env)

inProduction == isProductionEnvironment(env)

(* the non-blank entries of ALLOWED_ORIGINS *)
ConfiguredOrigins ==
  IF env.ALLOWED_ORIGINS = None THEN {}
  ELSE {x \in Range(split(env.ALLOWED_ORIGINS[1])) : \E i \in 1..Len(x) : x[i] # " "}

Declared(req) == req.origin # None /\ req.origin[1] # <<>>

(* host is suffix or a subdomain of it *)
AtBoundary(host, suffix) ==
  \/ host = suffix
  \/ /\ Len(host) > Len(suffix)
     /\ SubSeq(host, Len(host) - Len(suffix) + 1, Len(host)) = suffix
     /\ host[Len(host) - Len(suffix)] = "."

Matches(origin, allowed) ==
  \/ <<"*">> \in allowed
  \/ origin \in allowed
  \/ \E entry \in allowed :
       /\ Len(entry) >= 2 /\ entry[1] = "*" /\ entry[2] = "."
       /\ urlHostname(origin) # None
       /\ AtBoundary(urlHostname(origin)[1], SubSeq(entry, 3, Len(entry)))

CorsMissing ==
  /\ last.res.status = 500
  /\ last.res.json = Some([error |-> "CORS configuration is missing on the server."])

OriginDenied ==
  /\ last.res.status = 403
  /\ last.res.json = Some([error |-> "Origin not allowed."])

(* the invocation went past the origin policy (line 222 was executed) *)
PassedOrigin == "Access-Control-Allow-Methods" \in DOMAIN last.res.headers

(* the invocation answered without doing anything else *)
NothingElse ==
  /\ last.sent /\ ~last.reached /\ ~last.changed
  /\ DOMAIN last.res.headers = {}

(* C5 as stated: a declared origin passes iff it matches the allowed set   *)
(* ('*', exact, or '*.suffix' at a dot boundary of the hostname);          *)
(* otherwise the response is 403 "Origin not allowed." and nothing else    *)
(* is processed.                                                           *)
C5_AsStated ==
  (last.kind = "sync" /\ Declared(last.req)) =>
    /\ PassedOrigin <=> Matches(last.req.origin[1], allowedSet)
    /\ ~Matches(last.req.origin[1], allowedSet) => (OriginDenied /\ NothingElse)

(* C5: a declared origin passes iff it matches the allowed set; otherwise  *)
(* nothing else is processed and the response is 403 "Origin not           *)
(* allowed.", except that with an empty allowed set in production mode it  *)
(* is the CORS-configuration 500.                                          *)
C5_OriginDecision ==
  (last.kind = "sync" /\ Declared(last.req)) =>
    /\ PassedOrigin <=> Matches(last.req.origin[1], allowedSet)
    /\ ~Matches(last.req.origin[1], allowedSet) =>
         /\ NothingElse
         /\ IF allowedSet = {} /\ inProduction THEN CorsMissing ELSE OriginDenied

C5_Witness ==
  /\ last.kind = "sync"
  /\ last.req.origin = Some(OriginEvil)
  /\ <<"*", ".", "a", ".", "b">> \in allowedSet
  /\ OriginDenied

(* C6 as stated: a request with no declared Origin is never answered 403   *)
(* and never stopped by the CORS-configuration error, in every mode and    *)
(* for every allowed-origin configuration.                                 *)
C6_AsStated ==
  (last.kind = "sync" /\ ~Declared(last.req)) =>
    /\ last.res.status # 403
    /\ ~CorsMissing

(* C6: a request with no declared Origin is never answered 403; it is      *)
(* stopped by the CORS-configuration 500 exactly when the allowed set is   *)
(* empty in production mode, and otherwise passes the origin policy with   *)
(* no Access-Control-Allow-Origin header.                                  *)
C6_NoOriginAllowed ==
  (last.kind = "sync" /\ ~Declared(last.req)) =>
    /\ last.res.status # 403
    /\ CorsMissing <=> (allowedSet = {} /\ inProduction)
    /\ ~CorsMissing =>
         /\ PassedOrigin
         /\ "Access-Control-Allow-Origin" \notin DOMAIN last.res.headers

C6_Witness ==
  /\ last.kind = "sync"
  /\ last.req.origin = Some(<<>>)
  /\ inProduction
  /\ allowedSet = {OriginAB}
  /\ PassedOrigin

(* C7: in production mode with no allowed origins configured every         *)
(* request is answered 500 "CORS configuration is missing on the server."  *)
(* before anything else: no header is set, the limiter's state is          *)
(* unchanged and no upstream call is made.                                 *)
C7_CorsConfigMissing ==
  (inProduction /\ ConfiguredOrigins = {}) =>
    /\ \A i \in Slots : inv[i].pc = "idle"
    /\ DOMAIN rateLimitBuckets = {}
    /\ last.kind # "none" => (last.kind = "sync" /\ CorsMissing /\ NothingElse)

C7_Witness ==
  /\ inProduction
  /\ ConfiguredOrigins = {}
  /\ last.kind = "sync"
  /\ last.req.method = "OPTIONS"
  /\ Declared(last.req)
  /\ last.req.authorization = BearerT1
  /\ CorsMissing

(* C8: outside production mode with no allowed origins configured the      *)
(* allowed set is {'*'}: a request with any declared origin passes the     *)
(* origin policy, never 403 and never the CORS-configuration 500, and an   *)
(* otherwise valid one goes on to the upstream call.                       *)
C8_PermissiveDefault ==
  (last.kind = "sync" /\ Declared(last.req) /\ ~inProduction
     /\ ConfiguredOrigins = {}) =>
    /\ allowedSet = {<<"*">>}
    /\ PassedOrigin
    /\ last.res.status # 403
    /\ ~CorsMissing
    /\ (last.req.method = "POST" /\ parseAccessTokens(env) = {}
          /\ last.res.status # 429) => ~last.sent

PreflightHeaders ==
  /\ {"Access-Control-Allow-Methods", "Access-Control-Allow-Headers",
      "Access-Control-Max-Age"} \subseteq DOMAIN last.res.headers
  /\ last.res.headers["Access-Control-Allow-Methods"] = <<"POST, OPTIONS">>
  /\ last.res.headers["Access-Control-Allow-Headers"] = <<"Content-Type, Authorization">>
  /\ last.res.headers["Access-Control-Max-Age"] = <<"600">>

Acknowledged ==
  /\ last.res.status = 204
  /\ last.res.ended
  /\ last.res.json = None
  /\ PreflightHeaders

(* C9 as stated: every OPTIONS request is answered 204 with an empty body  *)
(* and the Allow-Methods, Allow-Headers and Max-Age headers, for every     *)
(* origin, configuration and credential.                                   *)
C9_AsStated ==
  (last.kind = "sync" /\ last.req.method = "OPTIONS") => Acknowledged

(* C9: an OPTIONS request that passes the origin policy is answered 204    *)
(* with an empty body and the Allow-Methods, Allow-Headers and Max-Age     *)
(* headers, whatever its credential; one stopped by the origin policy      *)
(* gets the CORS-configuration 500 (empty allowed set in production mode)  *)
(* or 403 (declared origin not matching the allowed set).                  *)
C9_Preflight ==
  (last.kind = "sync" /\ last.req.method = "OPTIONS") =>
    IF allowedSet = {} /\ inProduction THEN CorsMissing
    ELSE IF Declared(last.req) /\ ~Matches(last.req.origin[1], allowedSet)
    THEN OriginDenied
    ELSE Acknowledged

C9_Witness ==
  /\ last.kind = "sync"
  /\ last.req.method = "OPTIONS"
  /\ last.req.authorization = Some(<<"Bearer", " ", "nope">>)
  /\ parseAccessTokens(env) # {}
  /\ inProduction
  /\ Acknowledged

(* C10: an OPTIONS request never reaches the credential resolver, the      *)
(* validator, the rate limiter or the upstream caller: the rate-limit      *)
(* table and the last-sweep time are unchanged, no upstream call is made   *)
(* and the response is never 400, 401, 405, 413, 415 or 429.               *)
C10_PreflightFrame ==
  (last.kind = "sync" /\ last.req.method = "OPTIONS") =>
    /\ ~last.changed
    /\ ~last.reached
    /\ last.sent
    /\ last.res.status \notin {400, 401, 405, 413, 415, 429}

C10_Witness ==
  /\ last.kind = "sync"
  /\ last.req.method = "OPTIONS"
  /\ last.res.status = 204
  /\ now - lastRateLimitSweepAt >= 60000
  /\ \E k \in DOMAIN rateLimitBuckets : rateLimitBuckets[k].expiresAt <= now

(* --------- the credential resolver's and validator's specification ---- *)

ProdEnv == Some(<<"production">>)

ValidateEnvs ==
  {Env(None, None, Some(<<"*">>), None, ApiKey, Some(<<"1">>), Some(<<"1500">>), Some(<<"1">>)),
   Env(None, None, Some(OriginAB), TwoTokens, ApiKey, Some(<<"1">>), Some(<<"1500">>), Some(<<"0">>)),
   Env(None, ProdEnv, Some(<<"*">>), Some(<<" ", "t1", ",">>), ApiKey, Some(<<"0">>), Some(<<"1500">>), Some(<<"0">>)),
   Env(None, ProdEnv, Some(<<"*">>), Some(<<" ", ",">>), ApiKey, Some(<<"0">>), Some(<<"1500">>), Some(<<"0">>)),
   Env(None, None, Some(<<"*">>), None, None, Some(<<"0">>), Some(<<"1500">>), Some(<<"0">>)),
   Env(None, None, Some(OriginAB), TwoTokens, Some(<<>>), Some(<<"1">>), Some(<<"1500">>), Some(<<"0">>)),
   Env(ProdEnv, None, Some(<<"*">>), TwoTokens, None, Some(<<"1">>), Some(<<"1500">>), Some(<<"0">>)),
   Env(ProdEnv, None, Some(<<"*">>), None, None, Some(<<"1">>), Some(<<"1500">>), Some(<<"0">>)),
   Env(ProdEnv, None, None, TwoTokens, None, Some(<<"1">>), Some(<<"1500">>), Some(<<"0">>))}

Authorizations ==
  {None, BearerT1, BearerT2, Some(<<"Bearer", " ", "nope">>), Some(<<"Basic", " ", "t1">>),
   Some(<<"Bearer">>), Some(<<"Bearer", " ", " ">>), Some(<<"t1">>),
   Some(<<"Bearer", " ", "t1", "t2">>)}

Prompts ==
  {Prompt(5, 5), Prompt(4000, 4000), Prompt(4001, 4001), Prompt(4001, 3990),
   Prompt(4000, 1), Prompt(3, 0), Prompt(0, 0), Prompt(4005, 0),
   NoPrompt("nobody"), NoPrompt("missing"), NoPrompt("number")}

ContentTypes ==
  {None, Json, Some(<<"application/json", "; charset=utf-8">>), Some(<<"text/plain">>)}

ValidateRequests ==
  {Req("POST", Some(OriginAB), BearerT1, Json, p, None, None) : p \in Prompts}
  \cup {Req("POST", Some(OriginAB), a, Json, p, None, None) :
          a \in Authorizations, p \in {Prompt(5, 5)}}
  \cup {Req("POST", Some(OriginAB), BearerT1, ct, p, None, None) :
          ct \in ContentTypes, p \in {Prompt(5, 5)}}
  \cup {Req(m, Some(OriginAB), a, None, NoPrompt("nobody"), None, None) :
          m \in {"GET", "OPTIONS"}, a \in {None, BearerT1}}
  \cup {Req("POST", o, BearerT1, Json, Prompt(5, 5), None, None) :
          o \in {None, Some(OriginEvil)}}
  \cup {Req("GET", Some(OriginAB), BearerT1, Some(<<"text/plain">>), Prompt(4001, 4001),
            None, None),
        Req("POST", Some(OriginAB), BearerT1, Some(<<"text/plain">>), NoPrompt("missing"),
            None, None)}

InitValidate == InitWith(ValidateEnvs)

NextValidate ==
  \/ \E req \in ValidateRequests : Receive(req)
  \/ \E i \in Slots, o \in {"ok", "s5xx", "abort", "neterr"} : FetchSettles(i, o)
  \/ \E i \in Slots : DelayDone(i)
  \/ \E t \in {x \in TimePoints : x < 60000} : Tick(t)

SpecValidate == InitValidate /\ [][NextValidate]_vars

(* ------------- claims on the credential resolver and validator -------- *)

keyMissing == env.GEMINI_API_KEY = None \/ env.GEMINI_API_KEY = Some(<<>>)

tokensConfigured == parseAccessTokens(env) # {}

(* the request presents "Bearer <token>" with a configured token *)
TokenValid(req) ==
  /\ req.authorization # None
  /\ LET raw == req.authorization[1]
     IN /\ Len(raw) >= 3
        /\ raw[1] \in {"Bearer", "bearer", "BEARER"}
        /\ raw[2] = " "
        /\ trim(SubSeq(raw, 3, Len(raw))) # <<>>
        /\ trim(SubSeq(raw, 3, Len(raw))) \in parseAccessTokens(env)

KeyError ==
  /\ last.res.status = 500
  /\ last.res.json =
       Some([error |-> "Gemini API key is not configured. Set GEMINI_API_KEY with your Gemini key only.",
             docs |-> "https://ai.google.dev/gemini-api/docs/api-key"])

(* the request is not stopped before the API key check of line 254 *)
ReachesKeyCheck(req) ==
  /\ ~(allowedSet = {} /\ inProduction)
  /\ Declared(req) => Matches(req.origin[1], allowedSet)
  /\ req.method # "OPTIONS"
  /\ IF tokensConfigured THEN TokenValid(req) ELSE ~inProduction

JsonContent(req) ==
  /\ req.contentType # None
  /\ \E i \in 1..Len(req.contentType[1]) : req.contentType[1][i] = "application/json"

(* the request is not stopped before the prompt checks of lines 271-277 *)
ReachesPromptCheck(req) ==
  /\ ReachesKeyCheck(req)
  /\ ~keyMissing
  /\ req.method = "POST"
  /\ JsonContent(req)

PromptPresent(req) == req.prompt.type = "string" /\ req.prompt.trimmedLength > 0

TooLong ==
  /\ last.res.status = 413
  /\ last.res.json = Some([error |-> "Prompt is too long."])

(* C12: for a request that passes every earlier check, a prompt of 4000    *)
(* characters is accepted and one of 4001 or more is answered 413 "Prompt  *)
(* is too long."; the length is that of the prompt as received, not of     *)
(* the trimmed prompt.                                                     *)
C12_PromptLength ==
  (last.kind = "sync" /\ ReachesPromptCheck(last.req) /\ PromptPresent(last.req)) =>
    IF last.req.prompt.length >= 4001
    THEN TooLong /\ last.sent /\ ~last.reached
    ELSE last.res.status # 413 /\ last.reached

C12_Witness ==
  /\ last.kind = "sync"
  /\ ReachesPromptCheck(last.req)
  /\ last.req.prompt.length = 4000
  /\ last.req.prompt.trimmedLength = 4000
  /\ last.reached
  /\ ~last.sent

PromptRequired ==
  /\ last.res.status = 400
  /\ last.res.json = Some([error |-> "Prompt is required in the request body."])

(* C13: for a request that passes the method and content-type checks the   *)
(* response is 400 "Prompt is required in the request body." exactly when  *)
(* the body is missing, has no prompt, has a prompt that is not a string,  *)
(* or has a prompt that is empty after trimming.                           *)
C13_PromptRequired ==
  (last.kind = "sync" /\ ReachesPromptCheck(last.req)) =>
    /\ PromptRequired <=> ~PromptPresent(last.req)
    /\ last.res.status = 400 => (PromptRequired /\ last.sent /\ ~last.reached)

C13_Witness ==
  /\ last.kind = "sync"
  /\ ReachesPromptCheck(last.req)
  /\ last.req.prompt.type = "string"
  /\ last.req.prompt.length > 4000
  /\ last.req.prompt.trimmedLength = 0
  /\ PromptRequired

(* ------------------ the upstream caller's specification --------------- *)

UpstreamEnvs ==
  {Env(None, None, Some(<<"*">>), TwoTokens, ApiKey, Some(<<"0">>), None, Some(<<"0">>)),
   Env(None, None, Some(<<"*">>), TwoTokens, Some(<<"key2">>), Some(<<"0">>), None, None),
   Env(None, None, Some(<<"*">>), TwoTokens, ApiKey, Some(<<"0">>), None, Some(<<"2">>)),
   Env(None, None, Some(<<"*">>), TwoTokens, Some(<<"key2">>), Some(<<"0">>), None, Some(<<"7">>))}

UpstreamRequests ==
  {Req("POST", Some(OriginAB), BearerT1, Json, Prompt(5, 5), None, None)}

InitUpstream == InitWith(UpstreamEnvs)

NextUpstream ==
  \/ \E req \in UpstreamRequests : Receive(req)
  \/ \E i \in Slots, o \in Outcomes : FetchSettles(i, o)
  \/ \E i \in Slots : DelayDone(i)
  \/ \E t \in TimePoints : Tick(t)

SpecUpstream == InitUpstream /\ [][NextUpstream]_vars

(* --------------------- claims on the upstream caller ------------------ *)

maxRetries == getRequestConfig(env).maxRetries

Settled == last.kind = "settled"

(* C14: if the first k upstream attempts (0 <= k <= maxRetries) each       *)
(* return a 5xx status and attempt k + 1 succeeds, exactly k + 1 attempts  *)
(* are made and the client receives 200 with the body of attempt k + 1;    *)
(* the caller gives up on a run of 5xx responses only after                *)
(* maxRetries + 1 attempts.                                                *)
C14_RetryThenSuccess ==
  (Settled /\ last.fetched.before5xx) =>
    /\ last.fetched.prev = "ok" =>
         /\ last.fetched.n <= maxRetries + 1
         /\ last.calls = last.fetched.n
         /\ last.res.status = 200
         /\ last.res.json = Some([data |-> last.fetched.n])
    /\ last.fetched.prev = "s5xx" => last.fetched.n = maxRetries + 1

C14_Witness ==
  /\ Settled
  /\ last.fetched.before5xx
  /\ last.fetched.prev = "ok"
  /\ last.fetched.n = 3
  /\ last.res.status = 200

(* the fetches an invocation has started *)
Started(s) == s.fetched.n + (IF s.pc \in {"fetch", "body"} THEN 1 ELSE 0)

(* C15: for one request and any sequence of upstream outcomes the number   *)
(* of upstream attempts never exceeds maxRetries + 1; when every attempt   *)
(* times out it is exactly maxRetries + 1.                                 *)
C15_BoundedRetry ==
  /\ \A i \in Slots : Started(inv[i]) <= maxRetries + 1
  /\ Settled =>
       /\ last.fetched.n <= maxRetries + 1
       /\ last.fetched.onlyAbort =>
            (last.fetched.n = maxRetries + 1 /\ last.res.status = 500)

C15_Witness ==
  /\ Settled
  /\ last.fetched.onlyAbort
  /\ maxRetries = 3
  /\ last.fetched.n = 4
  /\ last.res.status = 500

(* C16: a further upstream attempt is made only if the previous attempt    *)
(* timed out, was aborted (AbortError, or the FetchError by which a fetch  *)
(* library reports a timeout) or returned a 5xx status; after a success or *)
(* a non-OK response below 500 no further attempt is made for the request. *)
C16_RetryCondition ==
  \A i \in Slots :
    (inv[i].pc \in {"fetch", "delay"} /\ inv[i].fetched.n >= 1) =>
      inv[i].fetched.prev \in {"abort", "fetcherr", "s5xx"}

UpstreamFailure ==
  /\ last.res.status = 500
  /\ last.res.json = Some([error |-> "Failed to generate insight."])

(* C17: whenever the upstream caller finally fails the client receives     *)
(* 500 with the body {error: "Failed to generate insight."}, the same for  *)
(* every upstream status, upstream body and credential.                    *)
C17_GenericFailure ==
  Settled =>
    /\ last.fetched.prev # "ok" => UpstreamFailure
    /\ last.res.status # 200 => UpstreamFailure

C17_Witness ==
  /\ Settled
  /\ last.fetched.prev = "s4xx"
  /\ env.GEMINI_API_KEY = Some(<<"key2">>)
  /\ UpstreamFailure

Unauthorized ==
  /\ last.res.status = 401
  /\ last.res.json = Some([error |-> "A valid access token is required."])

(* C18: with access tokens configured, a request that is not a preflight   *)
(* and passed the origin policy proceeds past the credential check iff it  *)
(* presents a bearer token that is a member of the configured set; with    *)
(* no token, a malformed header or a token that is not a member the        *)
(* response is 401 "A valid access token is required.", no upstream call   *)
(* is made and the rate-limit table is unchanged.                          *)
C18_AccessToken ==
  (last.kind = "sync" /\ tokensConfigured /\ last.req.method # "OPTIONS"
     /\ PassedOrigin) =>
    /\ last.res.status = 401 <=> ~TokenValid(last.req)
    /\ ~TokenValid(last.req) =>
         (Unauthorized /\ last.sent /\ ~last.reached /\ ~last.changed)

C18_Witness ==
  /\ last.kind = "sync"
  /\ tokensConfigured
  /\ last.req.method = "POST"
  /\ last.req.authorization = Some(<<"Bearer", " ", "nope">>)
  /\ DOMAIN rateLimitBuckets # {}
  /\ Unauthorized

(* -------------- the client-supplied-key handler's specification ------- *)

ClientEnvs ==
  {Env(None, None, None, None, None, Some(<<"1">>), None, Some(<<"1">>)),
   Env(None, ProdEnv, Some(<<"https://", "*", ".", "a", ".", "b">>), None, ApiKey,
       Some(<<"1">>), None, Some(<<"0">>)),
   Env(ProdEnv, None, Some(<<" ">>), None, None, Some(<<"1">>), None, Some(<<"0">>))}

(* pairs of an Authorization and an X-Gemini-Api-Key header *)
KeyHeaders ==
  {<<BearerT1, Some(<<" ", "t2", " ">>)>>, <<BearerT1, None>>, <<BearerT1, Some(<<" ">>)>>,
   <<None, Some(<<"t1">>)>>, <<Some(<<"Basic", " ", "t1">>), Some(<<" ", "t2", " ">>)>>,
   <<None, None>>, <<None, Some(<<" ">>)>>, <<Some(<<"Basic", " ", "t1">>), None>>,
   <<Some(<<"Bearer", " ", " ">>), Some(<<" ">>)>>, <<Some(<<"Bearer", " ", " ">>), None>>}

ClientRequests ==
  {ClientReq("POST", Some(OriginSub), h[1], h[2], Json, Prompt(5, 5), None, None) :
     h \in KeyHeaders}
  \cup {ClientReq(m, Some(OriginSub), None, None, ct, NoPrompt("nobody"), None, None) :
          m \in {"POST", "GET", "OPTIONS"}, ct \in {None, Json}}
  \cup {ClientReq("POST", Some(OriginEvil), BearerT1, None, Json, Prompt(5, 5), None, None),
        ClientReq("POST", None, None, Some(<<"t1">>), Json, NoPrompt("missing"),
                  Some(<<"1.1.1.1">>), None)}

InitClient == InitWith(ClientEnvs)

NextClient ==
  \/ \E req \in ClientRequests : ReceiveClient(req)
  \/ \E i \in Slots, o \in {"ok", "abort"} : FetchSettles(i, o)
  \/ \E i \in Slots : DelayDone(i)
  \/ \E t \in {x \in TimePoints : x < 60000} : Tick(t)

SpecClient == InitClient /\ [][NextClient]_vars

(* ---------------- claims on the client-supplied-key handler ----------- *)

(* the bearer token of the Authorization header, <<>> if there is none *)
BearerToken(req) ==
  IF req.authorization = None THEN <<>>
  ELSE LET raw == req.authorization[1]
       IN IF Len(raw) >= 3 /\ raw[1] \in {"Bearer", "bearer", "BEARER"} /\ raw[2] = " "
          THEN trim(SubSeq(raw, 3, Len(raw)))
          ELSE <<>>

(* the key the claim says is resolved *)
Resolved(req) ==
  IF req.geminiKey # None /\ (\E i \in 1..Len(req.geminiKey[1]) : req.geminiKey[1][i] # " ")
  THEN trim(req.geminiKey[1])
  ELSE BearerToken(req)

KeyRequired ==
  /\ last.res.status = 401
  /\ last.res.json = Some([error |-> "Gemini API key is required."])

(* the request is not stopped before the key check of the client-supplied  *)
(* handler                                                                 *)
ReachesClientKeyCheck ==
  /\ last.kind = "sync"
  /\ PassedOrigin
  /\ last.req.method = "POST"
  /\ JsonContent(last.req)

Statuses == {200, 204, 400, 401, 403, 405, 413, 415, 429, 500}

WellFormed(res) ==
  /\ res.status \in Statuses
  /\ IF res.status = 204 THEN res.ended /\ res.json = None
     ELSE /\ res.json # None
          /\ ~res.ended
          /\ res.status # 200 => "error" \in DOMAIN res.json[1]

NothingSent(res) == res.status = 0 /\ res.json = None /\ ~res.ended

MethodNotAllowed ==
  /\ last.res.status = 405
  /\ last.res.json = Some([error |-> "Method Not Allowed"])

UnsupportedType ==
  /\ last.res.status = 415
  /\ last.res.json = Some([error |-> "Content-Type must be application/json."])

(* the request is not stopped before the method check of line 262 *)
ReachesValidator(req) == ReachesKeyCheck(req) /\ ~keyMissing

(* C21: for a request that is not a preflight and passed the origin policy *)
(* and the credential checks, the validator checks the method (405), the   *)
(* content type (415), the presence of the prompt (400) and its length     *)
(* (413) in that order and answers with the error of the first check that  *)
(* fails; a request that passes all four reaches the rate limiter.         *)
C21_ValidatorOrder ==
  (last.kind = "sync" /\ ReachesValidator(last.req)) =>
    /\ IF last.req.method # "POST" THEN MethodNotAllowed
       ELSE IF ~JsonContent(last.req) THEN UnsupportedType
       ELSE IF ~PromptPresent(last.req) THEN PromptRequired
       ELSE IF last.req.prompt.length > 4000 THEN TooLong
       ELSE last.reached /\ last.res.status \notin {400, 405, 413, 415}
    /\ last.res.status \in {400, 405, 413, 415} => (last.sent /\ ~last.reached)

C21_Witness ==
  /\ last.kind = "sync"
  /\ ReachesValidator(last.req)
  /\ last.req.method = "GET"
  /\ last.req.contentType = Some(<<"text/plain">>)
  /\ last.req.prompt.length > 4000
  /\ MethodNotAllowed

(* the invocation ran the client-supplied-key handler *)
ClientMode == "apiKey" \in DOMAIN last

(* the request comes without the credential its mode asks for, or the      *)
(* server lacks the configuration to resolve one                           *)
CredentialMissing ==
  IF ClientMode THEN Resolved(last.req) = <<>>
  ELSE ~ReachesValidator(last.req)

(* C22: in both credential modes the credential resolver runs before the   *)
(* request validator: a request that is not a preflight, passed the origin *)
(* policy and has a missing or invalid credential is answered 401 (or the  *)
(* credential-configuration 500) whatever its method and content type,     *)
(* never 400, 405, 413 or 415.                                             *)
C22_StageOrder ==
  (last.kind = "sync" /\ PassedOrigin /\ last.req.method # "OPTIONS"
     /\ CredentialMissing) =>
    /\ last.res.status \in {401, 500}
    /\ last.res.status = 401 => (IF ClientMode THEN KeyRequired ELSE Unauthorized)
    /\ last.sent /\ ~last.reached

(* -------------- the specification of the client's identity ------------ *)
(* Valid requests that differ in their credential, X-Forwarded-For and     *)
(* socket address, among requests that each fail one check.  Each          *)
(* environment admits the requests of one origin.                          *)

IdentityEnvs ==
  {Env(None, None, Some(OriginAB), TwoTokens, ApiKey, Some(<<"2">>), Some(<<"1500">>), Some(<<"1">>)),
   Env(None, None, Some(OriginSub), None, ApiKey, Some(<<"1">>), Some(<<"1500">>), Some(<<"0">>)),
   Env(None, None, Some(OriginPort), None, ApiKey, Some(<<"1">>), Some(<<"1500">>), Some(<<"0">>))}

ForwardedTwo == Some(<<" ", "1.1.1.1", " ", ",", " ", "2.2.2.2">>)

IdentityRequests ==
  {Req("POST", Some(OriginAB), BearerT1, Json, Prompt(5, 5), None, None),
   Req("POST", Some(OriginAB), BearerT1, Json, Prompt(5, 5), ForwardedTwo, None),
   Req("POST", Some(OriginAB), BearerT2, Json, Prompt(5, 5), ForwardedTwo, None),
   Req("POST", Some(OriginAB), BearerT1, Json, Prompt(3, 0), None, None),
   Req("POST", Some(OriginAB), Some(<<"Bearer", " ", "nope">>), Json, Prompt(5, 5),
       None, None),
   Req("POST", Some(OriginEvil), BearerT1, Json, Prompt(5, 5), None, None),
   Req("GET", Some(OriginAB), BearerT1, Json, Prompt(5, 5), None, None),
   Req("POST", Some(OriginAB), BearerT1, Json, Prompt(4001, 4001), None, None),
   Req("POST", Some(OriginAB), BearerT1, Some(<<"text/plain">>), Prompt(5, 5), None, None)}
  \cup {Req("POST", Some(OriginSub), None, Json, Prompt(5, 5), x, ra) :
          x \in {None, Some(<<" ">>)}, ra \in {None, Some(<<"9.9.9.9">>)}}
  \cup {Req("POST", Some(OriginSub), None, Json, Prompt(5, 5),
            Some(<<" ", ",", "2.2.2.2">>), Some(<<"9.9.9.9">>)),
        Req("POST", Some(OriginPort), None, Json, Prompt(5, 5), ForwardedTwo,
            Some(<<"9.9.9.9">>)),
        Req("POST", Some(OriginPort), BearerT1, Json, Prompt(5, 5), Some(<<"2.2.2.2">>),
            None)}

InitIdentity == InitWith(IdentityEnvs)

NextIdentity ==
  \/ \E req \in IdentityRequests : Receive(req)
  \/ \E i \in Slots, o \in {"ok", "s4xx"} : FetchSettles(i, o)
  \/ \E i \in Slots : DelayDone(i)
  \/ \E t \in {x \in TimePoints : x % 60000 = 0} : Tick(t)

SpecIdentity == InitIdentity /\ [][NextIdentity]_vars

(* the request passes every check of the validator *)
Valid(req) ==
  /\ ReachesPromptCheck(req)
  /\ PromptPresent(req)
  /\ req.prompt.length <= 4000

(* C23: the rate limiter runs only after the request validator: a request  *)
(* answered 400, 401, 403, 405, 413 or 415 leaves the rate-limit table and *)
(* the last-sweep time unchanged, only requests that pass every earlier    *)
(* check reach the limiter, and the count of a key's open bucket is the    *)
(* number of its valid requests admitted in the window, however many       *)
(* invalid requests came with the same key.                                *)
C23_LimiterAfterValidator ==
  /\ (last.kind = "sync" /\ last.res.status \in {400, 401, 403, 405, 413, 415}) =>
       (last.sent /\ ~last.reached /\ ~last.changed)
  /\ (last.kind = "sync" /\ last.reached) => Valid(last.req)
  /\ rlCfg.maxRequests >= 1 =>
       \A k \in DOMAIN rateLimitBuckets :
         rateLimitBuckets[k].expiresAt > now =>
           /\ k \in DOMAIN windows
           /\ rateLimitBuckets[k].count = windows[k].admitted

C23_Witness ==
  /\ last.kind = "sync"
  /\ last.res.status = 413
  /\ last.req.authorization = BearerT1
  /\ rlCfg.maxRequests = 2
  /\ <<"token:", hashToken(<<"t1">>)>> \in DOMAIN rateLimitBuckets
  /\ rateLimitBuckets[<<"token:", hashToken(<<"t1">>)>>].count = 1
  /\ rateLimitBuckets[<<"token:", hashToken(<<"t1">>)>>].expiresAt > now

TokenConfigMissing ==
  /\ last.res.status = 500
  /\ last.res.json = Some([error |-> "Access token configuration is missing on the server."])

OccursIn(s, k) == \E i \in 1..Len(k) : k[i] = s

(* the token is neither the key k nor a part of it *)
Hidden(token, k) == token # <<>> => (k # token /\ ~OccursIn(concatAtoms(token), k))

(* the credentials a request can be admitted with, and the one presented   *)
(* by the latest request                                                   *)
Secrets ==
  parseAccessTokens(env) \cup {BearerToken(last.req)}
  \cup (IF ClientMode THEN {Resolved(last.req)} ELSE {})

(* the bucket keys and the logged keys are hashes, never the secret *)
SecretsHidden ==
  /\ (last.kind = "sync" /\ last.reached /\ tokensConfigured /\ ~ClientMode) =>
       last.clientKey[1] = <<"token:", hashToken(BearerToken(last.req))>>
  /\ (last.kind = "sync" /\ last.reached /\ ClientMode) =>
       last.clientKey[1] = <<"gem:", hashToken(Resolved(last.req))>>
  /\ \A k \in DOMAIN rateLimitBuckets : \A token \in Secrets : Hidden(token, k)
  /\ \A i \in DOMAIN last.log : \A j \in DOMAIN last.log[i].args :
       last.log[i].args[j].kind = "key" =>
         /\ last.clientKey = Some(last.log[i].args[j].v)
         /\ \A token \in Secrets : Hidden(token, last.log[i].args[j].v)

FirstForwarded(x) ==
  LET commas == {i \in 1..Len(x) : x[i] = ","}
      stop == IF commas = {} THEN Len(x) + 1
              ELSE CHOOSE i \in commas : \A j \in commas : i <= j
      inked == {i \in 1..(stop - 1) : x[i] # " "}
  IN IF inked = {} THEN <<>>
     ELSE SubSeq(x, CHOOSE i \in inked : \A j \in inked : i <= j,
                    CHOOSE i \in inked : \A j \in inked : i >= j)

Blank(x) == \A i \in 1..Len(x) : x[i] = " "

(* the key the claim gives a request that reaches the rate limiter *)
ExpectedKey(req) ==
  IF tokensConfigured THEN <<"token:", hashToken(BearerToken(req))>>
  ELSE IF req.xff # None /\ ~Blank(req.xff[1]) THEN FirstForwarded(req.xff[1])
  ELSE IF req.remoteAddress # None THEN req.remoteAddress[1]
  ELSE <<"unknown">>

(* C26: a request that reaches the rate limiter with a validated token is  *)
(* counted under "token:" plus the hash of that token whatever its         *)
(* X-Forwarded-For is, so requests with one token share one bucket and     *)
(* requests with different tokens never do; only when no token was         *)
(* validated is the key the first comma-separated entry of X-Forwarded-For *)
(* (trimmed), or without that header the socket's remote address, or       *)
(* without both 'unknown'.                                                 *)
C26_ClientKey ==
  /\ (last.kind = "sync" /\ last.reached) => last.clientKey = Some(ExpectedKey(last.req))
  /\ tokensConfigured =>
       /\ DOMAIN rateLimitBuckets \subseteq
            {<<"token:", hashToken(token)>> : token \in parseAccessTokens(env)}
       /\ \A k \in DOMAIN rateLimitBuckets :
            Cardinality({token \in parseAccessTokens(env) :
                           k = <<"token:", hashToken(token)>>}) = 1

C26_Witness ==
  /\ last.kind = "sync"
  /\ last.reached
  /\ last.req.authorization = BearerT1
  /\ last.req.xff = ForwardedTwo
  /\ last.prior = Some([count |-> 1, expiresAt |-> now + 1500])
  /\ DOMAIN rateLimitBuckets = {<<"token:", "sha256(t1)">>, <<"token:", "sha256(t2)">>}
  /\ rateLimitBuckets[<<"token:", "sha256(t1)">>].count = 2

(* ----------------------- claims on the CORS headers ------------------- *)

NoEcho(res) ==
  /\ "Access-Control-Allow-Origin" \notin DOMAIN res.headers
  /\ "Vary" \notin DOMAIN res.headers

Echoes(res, value) ==
  /\ {"Access-Control-Allow-Origin", "Vary"} \subseteq DOMAIN res.headers
  /\ res.headers["Access-Control-Allow-Origin"] = value
  /\ res.headers["Vary"] = <<"Origin">>

(* a response object past the origin policy: no echo, or the echo of '*'   *)
(* or of an origin the allowed set matches                                 *)
EchoKept(res) ==
  \/ NoEcho(res)
  \/ /\ {"Access-Control-Allow-Origin", "Vary"} \subseteq DOMAIN res.headers
     /\ res.headers["Vary"] = <<"Origin">>
     /\ IF <<"*">> \in allowedSet
        THEN res.headers["Access-Control-Allow-Origin"] = <<"*">>
        ELSE Matches(res.headers["Access-Control-Allow-Origin"], allowedSet)

(* C27: a response past the origin policy to a request with a declared     *)
(* origin carries Access-Control-Allow-Origin, '*' when the allowed set    *)
(* contains '*' and the request's origin otherwise, and 'Vary: Origin';    *)
(* a response to a request without a declared origin carries neither; the  *)
(* response sent after the upstream call carries what was set before it.   *)
C27_CorsEcho ==
  /\ (last.kind = "sync" /\ PassedOrigin /\ Declared(last.req)) =>
       Echoes(last.res, IF <<"*">> \in allowedSet THEN <<"*">> ELSE last.req.origin[1])
  /\ (last.kind = "sync" /\ ~Declared(last.req)) => NoEcho(last.res)
  /\ Settled => (PassedOrigin /\ EchoKept(last.res))
  /\ \A i \in Slots : inv[i].pc # "idle" => EchoKept(inv[i].res)

C27_Witness ==
  /\ last.kind = "sync"
  /\ last.req.origin = Some(OriginSub)
  /\ <<"*">> \notin allowedSet
  /\ OriginSub \notin allowedSet
  /\ ~last.sent
  /\ Echoes(last.res, OriginSub)

(* ----------------------- claims on the sweep -------------------------- *)

LimiterOn == ~(rlCfg.maxRequests = 0 \/ rlCfg.maxRequests < 0)

(* every bucket left in the table expires after the invocation's now *)
NoneExpired == \A k \in DOMAIN rateLimitBuckets' : rateLimitBuckets'[k].expiresAt > now

(* no key lost its bucket *)
NoneRemoved == DOMAIN rateLimitBuckets \subseteq DOMAIN rateLimitBuckets'

(* C28 as the specification states it: on each handler invocation, when   *)
(* more than 60 seconds have elapsed since the last sweep, no bucket with *)
(* expiresAt <= now remains and the last-sweep time becomes now; when     *)
(* less time has elapsed no bucket is removed.                            *)
C28_AsStated ==
  [][last'.kind = "sync" =>
       /\ now - lastRateLimitSweepAt > 60000 =>
            /\ NoneExpired
            /\ lastRateLimitSweepAt' = now
       /\ now - lastRateLimitSweepAt < 60000 => NoneRemoved]_vars

(* C28: an invocation that reaches the rate limiter while the limiter is  *)
(* enabled sweeps when 60 seconds or more have elapsed since the last     *)
(* sweep: then no bucket with expiresAt <= now remains, every other       *)
(* bucket is kept and the last-sweep time becomes now. Every other        *)
(* invocation removes no bucket and leaves the last-sweep time alone.     *)
C28_Sweep ==
  [][last'.kind = "sync" =>
       IF last'.reached /\ LimiterOn /\ now - lastRateLimitSweepAt >= 60000
       THEN /\ NoneExpired
            /\ lastRateLimitSweepAt' = now
            /\ \A k \in DOMAIN rateLimitBuckets :
                 rateLimitBuckets[k].expiresAt > now => k \in DOMAIN rateLimitBuckets'
            /\ last'.swept =
                 {k \in DOMAIN rateLimitBuckets : rateLimitBuckets[k].expiresAt <= now}
                   \ {last'.clientKey[1]}
       ELSE /\ NoneRemoved
            /\ last'.swept = {}
            /\ lastRateLimitSweepAt' = lastRateLimitSweepAt]_vars

(* a request swept another client's expired bucket, more than 60 seconds  *)
(* after the process started                                              *)
C28_Witness ==
  /\ last.kind = "sync"
  /\ last.reached
  /\ last.swept # {}
  /\ now > 60000
  /\ lastRateLimitSweepAt = now
  /\ DOMAIN rateLimitBuckets = {last.clientKey[1]}

(* ------------------ claims on concurrent invocations ------------------ *)

(* the invocations suspended in the upstream caller *)
Suspended == {i \in Slots : inv[i].pc # "idle"}

TimeoutEnvs ==
  {Env(None, None, Some(<<"*">>), None, ApiKey, Some(<<"0">>), Some(<<"1500">>), Some(<<r>>)) :
     r \in {"0", "1", "2"}}

TimeoutRequests ==
  {Req("POST", Some(OriginAB), None, Json, Prompt(5, 5), None, None),
   Req("GET", Some(OriginAB), None, Json, Prompt(5, 5), None, None)}

InitTimeout == InitWith(TimeoutEnvs)

(* The last reading of the clock stands for every later time: a retry     *)
(* delay that starts at it ends at it.                                    *)
LastReading == CHOOSE t \in TimePoints : \A u \in TimePoints : u <= t

DelayDoneLate(i) ==
  /\ inv[i].pc = "delay"
  /\ now = LastReading
  /\ now < inv[i].wake
  /\ inv' = [inv EXCEPT ![i].pc = "fetch", ![i].attempt = @ + 1, ![i].wake = 0,
                         ![i].timer = TRUE]
  /\ last' = NoEvent
  /\ UNCHANGED <<page, env, now, rateLimitBuckets, lastRateLimitSweepAt, windows>>

NextTimeout ==
  \/ \E req \in TimeoutRequests : Receive(req)
  \/ \E i \in Slots : HeadersArrive(i)
  \/ \E i \in Slots, o \in {"ok", "s5xx"} : FetchSettles(i, o)
  \/ \E i \in Slots : TimerFires(i)
  \/ \E i \in Slots : DelayDone(i)
  \/ \E i \in Slots : DelayDoneLate(i)
  \/ \E t \in TimePoints : Tick(t)

(* Time passes and a timer that is set fires: the timer of line 160 while *)
(* the fetch is pending, the timer of line 192 once its delay is over.    *)
(* Nothing is assumed of the upstream.                                    *)
SpecTimeout ==
  /\ InitTimeout
  /\ [][NextTimeout]_vars
  /\ WF_vars(\E t \in TimePoints : Tick(t))
  /\ \A i \in Slots :
       WF_vars(TimerFires(i)) /\ WF_vars(DelayDone(i)) /\ WF_vars(DelayDoneLate(i))

(* ------------------------ claims on the timeout ----------------------- *)

(* the attempts that have not completed *)
Unfinished == {i \in Slots : inv[i].pc \in {"fetch", "body"}}

(* C30 as the specification states it, in the form a finite run refutes:  *)
(* an attempt that has not completed is one the timeout will abort, so    *)
(* its timer is set.                                                      *)
C30_AsStated == \A i \in Unfinished : inv[i].timer

(* C30 as the specification states it: a request that has reached the    *)
(* upstream caller is eventually answered, whatever the upstream does.    *)
C30_Answered == \A i \in Slots : (inv[i].pc # "idle") ~> (inv[i].pc = "idle")

(* What the timeout does give: an attempt whose fetch is pending ends     *)
(* with an answer to the request or with a response whose body is         *)
(* awaited.                                                               *)
C30_FetchEnds == \A i \in Slots : (inv[i].pc = "fetch") ~> (inv[i].pc \in {"idle", "body"})

(* ------------------------ claims on the backoff ----------------------- *)

(* C31: a further attempt of a request starts only when a delay of 200 ms *)
(* times the number of the attempt that just failed is over, whether that *)
(* attempt failed by timeout or by a 5xx response; the delay starts when  *)
(* the attempt fails, and none starts after the last attempt.             *)
C31_Backoff ==
  [][\A i \in Slots :
       /\ (inv[i].attempt >= 1 /\ inv'[i].attempt = inv[i].attempt + 1) =>
            /\ inv[i].pc = "delay"
            /\ now >= inv[i].wake
       /\ (inv[i].pc # "delay" /\ inv'[i].pc = "delay") =>
            /\ inv'[i].wake = now + 200 * inv[i].attempt
            /\ inv[i].attempt <= maxRetries]_vars

(* ----------------- the request configuration's specification ---------- *)

(* The values of GENERATE_INSIGHT_TIMEOUT_MS and                          *)
(* GENERATE_INSIGHT_MAX_RETRIES: unset, blank, not a numeral, infinite,   *)
(* negative, zero, up to the cap of the retries and above it.            *)
Unset == {None}
BlankInputs == {Some(<<>>), Some(<<" ">>)}
NonNumeric == {Some(<<"abc">>), Some(<<"Infinity">>)}
Negative == {Some(<<"-1">>)}
Zero == {Some(<<"0">>)}
Small == {Some(<<" ", "2">>), Some(<<"3">>)}
Huge == {Some(<<"7">>), Some(<<"2000000000">>)}

ConfigInputs == Unset \cup BlankInputs \cup NonNumeric \cup Negative \cup Zero \cup Small \cup Huge

ConfigEnv(t, r) ==
  [Env(None, None, Some(<<"*">>), None, ApiKey, Some(<<"0">>), None, r)
     EXCEPT !.GENERATE_INSIGHT_TIMEOUT_MS = t]

ConfigEnvs ==
  {ConfigEnv(x, x) : x \in ConfigInputs}
  \cup {ConfigEnv(Some(<<"2000000000">>), None), ConfigEnv(Some(<<"abc">>), Some(<<"3">>))}

ConfigRequests ==
  {Req("POST", Some(OriginAB), None, Json, Prompt(5, 5), None, None)}

InitConfig == InitWith(ConfigEnvs)

NextConfig ==
  \/ \E req \in ConfigRequests : Receive(req)
  \/ \E i \in Slots, o \in {"ok", "abort", "s5xx"} : FetchSettles(i, o)
  \/ \E i \in Slots : DelayDone(i)
  \/ \E t \in TimePoints : Tick(t)

SpecConfig == InitConfig /\ [][NextConfig]_vars

(* ------------------ claims on the request configuration --------------- *)

reqCfg == getRequestConfig(env)

(* the numeral of a small or huge input *)
Numeral(v) == AtomNumber[v[1][Len(v[1])]]

(* C32: for every value of the two inputs the resolved configuration has  *)
(* timeoutMs > 0 and 0 <= maxRetries <= 3: an unset, non-numeric,         *)
(* negative or zero timeout gives 15000 and an unset, non-numeric or      *)
(* negative number of retries gives 1, a blank input counts as zero, a    *)
(* huge number of retries gives 3; hence no request causes more than 4    *)
(* upstream attempts.                                                     *)
C32_RequestConfigBounds ==
  LET t == env.GENERATE_INSIGHT_TIMEOUT_MS
      r == env.GENERATE_INSIGHT_MAX_RETRIES
  IN /\ reqCfg.timeoutMs > 0
     /\ 0 <= reqCfg.maxRetries
     /\ reqCfg.maxRetries <= 3
     /\ reqCfg.timeoutMs =
          (IF t \in Small \cup Huge THEN Numeral(t) ELSE DEFAULT_REQUEST_TIMEOUT_MS)
     /\ reqCfg.maxRetries =
          (IF r \in Unset \cup NonNumeric \cup Negative THEN DEFAULT_MAX_RETRIES
           ELSE IF r \in BlankInputs \cup Zero THEN 0
           ELSE IF r \in Small THEN Numeral(r)
           ELSE 3)
     /\ \A i \in Slots : Started(inv[i]) <= 4
     /\ Settled => (last.calls <= 4 /\ last.fetched.n <= 4)

(* with 2000000000 retries configured a request whose every attempt timed *)
(* out is answered 500 after four attempts                                *)
C32_Witness ==
  /\ env.GENERATE_INSIGHT_MAX_RETRIES = Some(<<"2000000000">>)
  /\ env.GENERATE_INSIGHT_TIMEOUT_MS = Some(<<"2000000000">>)
  /\ reqCfg = [timeoutMs |-> 2000000000, maxRetries |-> 3]
  /\ Settled
  /\ last.fetched.onlyAbort
  /\ last.fetched.n = 4
  /\ last.res.status = 500

(* ------------------- the execution mode's specification --------------- *)

BlankModes == {None, Some(<<>>), Some(<<" ">>)}
ProductionModes ==
  {Some(<<"production">>), Some(<<" ", "Production">>), Some(<<"PRODUCTION", " ">>)}
OtherModes == {Some(<<"preview">>), Some(<<"development">>)}

ModeValues == BlankModes \cup ProductionModes \cup OtherModes

(* no allowed origins and no access tokens: production answers 500 *)
ModeEnvs ==
  {Env(ve, ne, None, None, ApiKey, Some(<<"0">>), None, Some(<<"0">>)) :
     ve \in ModeValues, ne \in ModeValues}

ModeRequests ==
  {Req("POST", Some(OriginAB), None, Json, Prompt(5, 5), None, None),
   Req("OPTIONS", Some(OriginAB), None, None, NoPrompt("nobody"), None, None)}

InitMode == InitWith(ModeEnvs)

NextMode ==
  \/ \E req \in ModeRequests : Receive(req)
  \/ \E i \in Slots : FetchSettles(i, "ok")
  \/ \E t \in TimePoints : Tick(t)

SpecMode == InitMode /\ [][NextMode]_vars

(* --------------------- claims on the execution mode ------------------- *)

ExpectedProduction ==
  \/ env.VERCEL_ENV \in ProductionModes
  \/ env.VERCEL_ENV \in BlankModes /\ env.NODE_ENV \in ProductionModes

(* C33: the mode is production exactly when VERCEL_ENV, trimmed and       *)
(* lower-cased, is "production", or VERCEL_ENV is unset or blank and      *)
(* NODE_ENV, trimmed and lower-cased, is "production"; with nothing else  *)
(* configured the handler answers the production 500 in exactly these     *)
(* environments.                                                          *)
C33_ExecutionMode ==
  /\ inProduction <=> ExpectedProduction
  /\ last.kind = "sync" => (CorsMissing <=> ExpectedProduction)

(* VERCEL_ENV = preview wins over NODE_ENV = production: the request is   *)
(* admitted                                                               *)
C33_Witness ==
  /\ env.VERCEL_ENV = Some(<<"preview">>)
  /\ env.NODE_ENV \in ProductionModes
  /\ last.kind = "sync"
  /\ last.req.method = "POST"
  /\ ~last.sent
  /\ ~CorsMissing

(* ---------------------- claims on the upstream call ------------------- *)

(* the answers of the stages before the upstream caller *)
EarlyStatuses == {204, 400, 401, 403, 405, 413, 415, 429}

(* a 500 of lines 207, 237 or 255: the configuration is incomplete *)
ConfigError(res) ==
  /\ res.status = 500
  /\ res.json # Some([error |-> "Failed to generate insight."])

(* C34: a response 204, 400, 401, 403, 405, 413, 415 or 429 and every     *)
(* configuration-error 500 is sent by the synchronous part of the         *)
(* handler, which then starts no upstream attempt; an upstream attempt is *)
(* started only for a request that passed the origin policy, the          *)
(* credential check, the validator and the rate limiter; what follows an  *)
(* upstream attempt is a 200 or the 500 of the upstream failure.          *)
C34_NoUpstreamCall ==
  [][/\ (last'.res.status \in EarlyStatuses \/ ConfigError(last'.res)) =>
          /\ last'.kind = "sync"
          /\ last'.sent
          /\ last'.calls = 0
          /\ inv' = inv
     /\ (last'.kind = "sync" /\ inv' # inv) =>
          /\ Valid(last'.req)
          /\ last'.reached
          /\ ~last'.sent
          /\ last'.res.status = 0
          /\ \E i \in Slots :
               /\ inv[i].pc = "idle"
               /\ inv'[i].pc = "fetch"
               /\ inv'[i].attempt = 1
               /\ \A j \in Slots \ {i} : inv'[j] = inv[j]
     /\ last'.kind = "settled" =>
          /\ last'.calls >= 1
          /\ last'.res.status \in {200, 500}
          /\ ~ConfigError(last'.res)]_vars

(* a request is refused 429 while an earlier one of its client awaits the *)
(* upstream: the refusal started no attempt                               *)
C34_Witness ==
  /\ last.kind = "sync"
  /\ last.sent
  /\ last.res.status = 429
  /\ last.calls = 0
  /\ \A i \in Slots : inv[i].pc = "fetch" /\ inv[i].attempt = 1 /\ inv[i].fetched.n = 0

(* ------------------------ claims on the buckets ----------------------- *)

(* C35: with maxRequests = N >= 1 every bucket of the table has           *)
(* 1 <= count <= N and expiresAt = the time it was made + windowMs: the   *)
(* start of the key's window while the window is open, an earlier reading *)
(* of the clock once it has expired.                                      *)
C35_BucketInvariant ==
  rlCfg.maxRequests >= 1 =>
    \A k \in DOMAIN rateLimitBuckets :
      LET b == rateLimitBuckets[k]
      IN /\ 1 <= b.count
         /\ b.count <= rlCfg.maxRequests
         /\ \E t \in TimePoints : t <= now /\ b.expiresAt = t + rlCfg.windowMs
         /\ b.expiresAt > now =>
              (k \in DOMAIN windows /\ b.expiresAt = windows[k].t0 + rlCfg.windowMs)

(* a third request finds the bucket made at 500 full, with count 2 *)
C35_Witness ==
  /\ rlCfg.maxRequests = 2
  /\ Rejected
  /\ now = 500
  /\ rateLimitBuckets[last.clientKey[1]] = [count |-> 2, expiresAt |-> 2000]

(* C36: a request refused by the limiter leaves its bucket as it was, and *)
(* a request admitted inside a live window adds 1 to count and leaves     *)
(* expiresAt as it was: no request extends the window of its key.         *)
C36_WindowNotExtended ==
  (last.kind = "sync" /\ last.reached /\ LimiterOn) =>
    /\ last.clientKey[1] \in DOMAIN rateLimitBuckets
    /\ Rejected =>
         /\ last.prior # None
         /\ rateLimitBuckets[last.clientKey[1]] = last.prior[1]
    /\ (Admitted /\ last.prior # None) =>
         IF last.prior[1].expiresAt > now
         THEN rateLimitBuckets[last.clientKey[1]] =
                [count |-> last.prior[1].count + 1, expiresAt |-> last.prior[1].expiresAt]
         ELSE rateLimitBuckets[last.clientKey[1]].expiresAt = now + rlCfg.windowMs

(* the second request of a window opened at 0 is admitted at 500: the     *)
(* bucket still expires at 1500                                           *)
C36_Witness ==
  /\ Admitted
  /\ now = 500
  /\ last.prior = Some([count |-> 1, expiresAt |-> 1500])
  /\ rateLimitBuckets[last.clientKey[1]] = [count |-> 2, expiresAt |-> 1500]

(* the buckets of the other keys: all but the key of the request handled *)
Others ==
  IF last'.clientKey = None THEN DOMAIN rateLimitBuckets
  ELSE DOMAIN rateLimitBuckets \ {last'.clientKey[1]}

(* C37: handling a request leaves the bucket of every other key as it     *)
(* was, or removes it when its window has expired, and makes no bucket    *)
(* for another key; a request that reaches the limiter is refused exactly *)
(* when the bucket of its own key is live and full.                       *)
C37_BucketIndependence ==
  [][last'.kind = "sync" =>
       /\ \A k \in Others :
            IF k \in DOMAIN rateLimitBuckets'
            THEN rateLimitBuckets'[k] = rateLimitBuckets[k]
            ELSE rateLimitBuckets[k].expiresAt <= now
       /\ DOMAIN rateLimitBuckets' \subseteq
            DOMAIN rateLimitBuckets \cup (IF last'.reached THEN {last'.clientKey[1]} ELSE {})
       /\ (last'.reached /\ LimiterOn) =>
            (last'.sent <=>
               /\ last'.clientKey[1] \in DOMAIN rateLimitBuckets
               /\ rateLimitBuckets[last'.clientKey[1]].expiresAt > now
               /\ rateLimitBuckets[last'.clientKey[1]].count >= rlCfg.maxRequests)]_vars

(* a request is admitted and opens its bucket while the bucket of another *)
(* key is live and full                                                   *)
C37_Witness ==
  /\ Admitted
  /\ LimiterOn
  /\ last.prior = None
  /\ \E k \in DOMAIN rateLimitBuckets \ {last.clientKey[1]} :
       /\ rateLimitBuckets[k].expiresAt > now
       /\ rateLimitBuckets[k].count = rlCfg.maxRequests

(* ------------------ the sliding interval's specification -------------- *)

WindowEnvs ==
  {Env(None, None, Some(<<"*">>), None, ApiKey, Some(<<"1">>), Some(<<"1500">>), Some(<<"0">>)),
   Env(None, None, Some(<<"*">>), None, ApiKey, Some(<<"2">>), Some(<<"1500">>), Some(<<"0">>)),
   Env(None, None, Some(<<"*">>), None, ApiKey, Some(<<"2">>), None, Some(<<"0">>))}

WindowRequests ==
  {Req("POST", Some(OriginAB), None, Json, Prompt(5, 5), x, None) :
     x \in {None, Some(<<"2.2.2.2">>)}}

InitWindow == InitWith(WindowEnvs)

(* In this specification windows[k] is the sequence of the times at which *)
(* a request of key k was admitted, as far back as one window length      *)
(* before now.                                                            *)
noteAdmission(w, key, t) ==
  [k \in DOMAIN w \cup {key} |->
     IF k # key THEN w[k]
     ELSE IF key \in DOMAIN w THEN Append(w[key], t) ELSE <<t>>]

RECURSIVE since(_, _)
since(times, t) ==
  IF times = <<>> THEN <<>>
  ELSE IF Head(times) < t THEN since(Tail(times), t)
  ELSE times

(* module.exports(req, res) up to its first await or its response *)
Arrive(req) ==
  \E r \in {handler(req, env, now, limiterState)} :
    LET free == {i \in Slots : inv[i].pc = "idle"}
    IN /\ (IF r.sent THEN TRUE ELSE free # {})
       /\ rateLimitBuckets' = r.st.buckets
       /\ lastRateLimitSweepAt' = r.st.sweepAt
       /\ last' = [kind |-> "sync", req |-> req, res |-> r.res, sent |-> r.sent,
                   reached |-> r.reached, clientKey |-> r.clientKey,
                   prior |-> IF r.reached /\ r.clientKey[1] \in DOMAIN rateLimitBuckets
                             THEN Some(rateLimitBuckets[r.clientKey[1]]) ELSE None,
                   changed |-> r.st # limiterState, calls |-> 0, fetched |-> NoFetch,
                   log |-> r.log,
                   swept |-> DOMAIN rateLimitBuckets \ DOMAIN r.st.buckets]
       /\ windows' = IF r.reached /\ ~r.sent
                     THEN noteAdmission(windows, r.clientKey[1], now)
                     ELSE windows
       /\ inv' = IF r.sent THEN inv
                 ELSE LET i == CHOOSE j \in free : \A k \in free : j <= k
                      IN [inv EXCEPT ![i] = [pc |-> "fetch", attempt |-> 1, wake |-> 0,
                                             timer |-> TRUE,
                                             res |-> r.res, clientKey |-> r.clientKey,
                                             fetched |-> NoFetch]]
       /\ UNCHANGED <<page, env, now>>

Pass(t) ==
  /\ t > now
  /\ now' = t
  /\ last' = NoEvent
  /\ windows' = [k \in DOMAIN windows |->
                   since(windows[k], t - getRateLimitConfig(env).windowMs)]
  /\ UNCHANGED <<page, env, rateLimitBuckets, lastRateLimitSweepAt, inv>>

NextWindow ==
  \/ \E req \in WindowRequests : Arrive(req)
  \/ \E i \in Slots : FetchSettles(i, "ok")
  \/ \E t \in TimePoints : Pass(t)

SpecWindow == InitWindow /\ [][NextWindow]_vars

(* -------------------- claims on the sliding interval ------------------ *)

(* C38: with maxRequests = N >= 1 and window W, at most 2N requests of    *)
(* one key are admitted at times t with now - W <= t <= now, whatever now *)
(* is: no interval of length W holds more than 2N admissions of one key.  *)
C38_SlidingBound ==
  rlCfg.maxRequests >= 1 =>
    \A k \in DOMAIN windows : Len(windows[k]) <= 2 * rlCfg.maxRequests

(* N = 2, W = 1500: two requests admitted at 60000, where a window        *)
(* starts, and two at 61500, where the next one starts                    *)
C38_Witness ==
  /\ rlCfg = [maxRequests |-> 2, windowMs |-> 1500]
  /\ now = 61500
  /\ \E k \in DOMAIN windows : windows[k] = <<60000, 60000, 61500, 61500>>

(***************************************************************************)
(* The page: api/public/js/modules/ai-generator.js                         *)
(***************************************************************************)

(* dom.js: classList.toggle('hidden', hidden) and textContent = value on a *)
(* document d. Every element the module looks up by id is taken to be in   *)
(* the page.                                                               *)
toggleHidden(d, element, hide) ==
  [d EXCEPT !.hidden = IF hide THEN @ \cup {element} ELSE @ \ {element}]

setText(d, element, value) ==
  [d EXCEPT !.textContent[element] = value]

showError(d, container, messageElement, message) ==
  toggleHidden(setText(d, messageElement, message), container, FALSE)

hideError(d, container) == toggleHidden(d, container, TRUE)

showResult(d, container, textElement, text, copyButton) ==
  toggleHidden(toggleHidden(setText(d, textElement, text), copyButton, FALSE),
               container, FALSE)

hideResult(d, container, copyButton) ==
  toggleHidden(toggleHidden(d, container, TRUE), copyButton, TRUE)

setLoading(d, element, isLoading) == toggleHidden(d, element, ~isLoading)

(* The token field holds nothing or a key; a topic, a question and the     *)
(* details of an item are blank or not.                                    *)
Tokens == {"", "key"}

(* What response.json() settles with: a body that holds an insight, one   *)
(* that holds none, one that names an error, or a rejection because the    *)
(* body is not JSON.                                                       *)
Bodies == {"insight", "empty", "error", "invalid"}

(* error.message of the Error the try block of lines 159-193 ends with,    *)
(* for a response with the given ok and body that carries no insight to    *)
(* show                                                                    *)
errorMessage(ok, body) ==
  IF ~ok
  THEN IF body = "error" THEN "data.error" ELSE "Request failed with status"
  ELSE IF body = "invalid" THEN "SyntaxError"
  ELSE "No insight generated. Please try again."

RECURSIVE sum(_, _)
sum(f, S) ==
  IF S = {} THEN 0
  ELSE LET e == CHOOSE x \in S : TRUE IN f[e] + sum(f, S \ {e})

made(h) == sum(h, DOMAIN h)

(* createRequest up to its first await (lines 140-160): the containers are *)
(* hidden and the indicator shown; without a token it ends at line 156,    *)
(* with one it is suspended at the fetcher.                                *)
createRequest(d, ui, token) ==
  LET d1 == setLoading(hideResult(hideError(d, ui.errorElement),
                                  ui.resultElement, ui.copyButton),
                       ui.loadingElement, TRUE)
  IN /\ made(history) < MaxCalls
     /\ history' = [history EXCEPT ![ui.loadingElement] = @ + 1]
     /\ activeToken' = activeToken
     /\ IF token = ""
        THEN /\ document' = showError(setLoading(d1, ui.loadingElement, FALSE),
                                      ui.errorElement, ui.errorMessageElement,
                                      "Please enter your Gemini API key")
             /\ requests' = requests
        ELSE /\ \E c \in Pending : requests[c].pc = "idle"
             /\ LET c == CHOOSE k \in Pending : requests[k].pc = "idle"
                IN requests' = [requests EXCEPT
                                  ![c] = [pc |-> "fetcher", ui |-> ui, ok |-> FALSE]]
             /\ document' = d1

baseRequest(d, uiOverrides) == createRequest(d, uiOverrides, activeToken)

server == <<env, now, rateLimitBuckets, lastRateLimitSweepAt, inv, last, windows>>

(* accessTokenInput 'input' listener, lines 287-289 *)
TokenInput(value) ==
  /\ activeToken' = value
  /\ UNCHANGED <<server, document, requests, history>>

(* generateBtn click, lines 303-310 *)
GenerateClick(topic) ==
  /\ IF topic = ""
     THEN /\ document' = showError(document, buildUiContext.errorElement,
                                   buildUiContext.errorMessageElement,
                                   "Please enter a topic")
          /\ UNCHANGED <<activeToken, requests, history>>
     ELSE baseRequest(document, buildUiContext)
  /\ UNCHANGED server

(* generateContextBtn click, lines 312-324 *)
GenerateContextClick(context, userPrompt) ==
  /\ IF context = "" \/ userPrompt = ""
     THEN /\ document' = showError(document, buildUiContext.errorElement,
                                   buildUiContext.errorMessageElement,
                                   "Please select a publication or project")
          /\ UNCHANGED <<activeToken, requests, history>>
     ELSE baseRequest(document, buildUiContext)
  /\ UNCHANGED server

(* click on a project link, lines 327-356: item is whether closest() finds *)
(* the item, details whether it has a title or a description               *)
ProjectClick(item, details) ==
  /\ IF ~item
     THEN /\ document' = showError(document, projectUi.errorElement,
                                   projectUi.errorMessageElement,
                                   "Unable to identify the selected project")
          /\ UNCHANGED <<activeToken, requests, history>>
     ELSE IF ~details
     THEN /\ document' = showError(document, projectUi.errorElement,
                                   projectUi.errorMessageElement,
                                   "No details were found")
          /\ UNCHANGED <<activeToken, requests, history>>
     ELSE baseRequest(setText(document, "projectInsightTitle", "Project Insight"),
                      projectUi)
  /\ UNCHANGED server

(* click on a publication button, lines 359-395 *)
PublicationClick(item, details) ==
  /\ IF ~item
     THEN /\ document' = showError(document, publicationUi.errorElement,
                                   publicationUi.errorMessageElement,
                                   "Unable to identify the selected publication")
          /\ UNCHANGED <<activeToken, requests, history>>
     ELSE IF ~details
     THEN /\ document' = showError(document, publicationUi.errorElement,
                                   publicationUi.errorMessageElement,
                                   "No details were found")
          /\ UNCHANGED <<activeToken, requests, history>>
     ELSE baseRequest(setText(document, "publicationInsightTitle", "Publication Insight"),
                      publicationUi)
  /\ UNCHANGED server

(* catch and finally, lines 194-202 *)
catchError(d, ui, message) ==
  setLoading(showError(d, ui.errorElement, ui.errorMessageElement, message),
             ui.loadingElement, FALSE)

(* The fetcher resolves, line 160: the call goes on to await              *)
(* response.json() at line 173 or 183.                                     *)
FetcherResolves(c, ok) ==
  /\ requests[c].pc = "fetcher"
  /\ requests' = [requests EXCEPT ![c].pc = "json", ![c].ok = ok]
  /\ UNCHANGED <<server, document, activeToken, history>>

(* The fetcher rejects, line 160: catch and finally *)
FetcherRejects(c) ==
  /\ requests[c].pc = "fetcher"
  /\ document' = catchError(document, requests[c].ui, "Failed to fetch")
  /\ requests' = [requests EXCEPT ![c] = NoCall]
  /\ UNCHANGED <<server, activeToken, history>>

(* response.json() settles, lines 173-202: the insight is shown, or the   *)
(* error the try block threw; then the indicator is hidden.                *)
JsonSettles(c, body) ==
  LET ui == requests[c].ui
      ok == requests[c].ok
  IN /\ requests[c].pc = "json"
     /\ document' =
          IF ok /\ body = "insight"
          THEN setLoading(showResult(document, ui.resultElement, ui.textElement,
                                     "insight", ui.copyButton),
                          ui.loadingElement, FALSE)
          ELSE catchError(document, ui, errorMessage(ok, body))
     /\ requests' = [requests EXCEPT ![c] = NoCall]
     /\ UNCHANGED <<server, activeToken, history>>

(* The server plays no part in this specification: its state stays as one  *)
(* process starts with.                                                    *)
InitPage ==
  /\ env = CHOOSE e \in RateEnvs : TRUE
  /\ now = 0
  /\ rateLimitBuckets = [k \in {} |-> 0]
  /\ lastRateLimitSweepAt = 0
  /\ inv = [i \in Slots |-> IdleInv]
  /\ last = NoEvent
  /\ windows = [k \in {} |-> 0]
  /\ PageLoaded(Tokens)

NextPage ==
  \/ \E value \in Tokens : TokenInput(value)
  \/ \E topic \in {"", "topic"} : GenerateClick(topic)
  \/ \E context \in {"", "context"}, userPrompt \in {"", "question"} :
       GenerateContextClick(context, userPrompt)
  \/ \E item \in BOOLEAN, details \in BOOLEAN : ProjectClick(item, details)
  \/ \E item \in BOOLEAN, details \in BOOLEAN : PublicationClick(item, details)
  \/ \E c \in Pending, ok \in BOOLEAN : FetcherResolves(c, ok)
  \/ \E c \in Pending : FetcherRejects(c)
  \/ \E c \in Pending, body \in Bodies : JsonSettles(c, body)

SpecPage == InitPage /\ [][NextPage]_vars

(***************************************************************************)
(* claims on the page                                                      *)
(***************************************************************************)

InFlight(ui) == \E c \in Pending : requests[c].pc # "idle" /\ requests[c].ui = ui

Visible(element) == element \notin document.hidden

(* C39: while a request started on a set of UI elements is in flight, the  *)
(* loading indicator of the set is visible and neither its result nor its  *)
(* error container is, also when a second request starts before the first  *)
(* has settled; once all its requests have settled the indicator is hidden *)
(* and exactly one of the result and the error container is visible.       *)
C39_AsStated ==
  \A ui \in Uis :
    /\ InFlight(ui) =>
         /\ Visible(ui.loadingElement)
         /\ ~Visible(ui.resultElement)
         /\ ~Visible(ui.errorElement)
    /\ (~InFlight(ui) /\ history[ui.loadingElement] > 0) =>
         /\ ~Visible(ui.loadingElement)
         /\ Visible(ui.resultElement) # Visible(ui.errorElement)

(* C39, the case of the second request: a step in which one request of a   *)
(* set settles while another request of the same set stays in flight       *)
(* leaves the indicator visible and both containers hidden.                *)
C39_SecondRequest ==
  [][\A c \in Pending :
       (/\ requests[c].pc # "idle"
        /\ requests'[c].pc = "idle"
        /\ InFlight(requests[c].ui)')
       => /\ Visible(requests[c].ui.loadingElement)'
          /\ ~Visible(requests[c].ui.resultElement)'
          /\ ~Visible(requests[c].ui.errorElement)']_vars

====
